---------------------------- MODULE Spec2Model ----------------------------
(***************************************************************************)
(* A model of the BuyerChina Telegram bot.                                 *)
(*                                                                         *)
(*   - main.py: the /webhook handler, the request classifier               *)
(*     is_real_order and the manager notifier notify_manager;              *)
(*   - flask_app.py: the /webhook handler with its in-memory order map;    *)
(*   - services/supplier_verification.py: the supplier lookup.             *)
(*                                                                         *)
(* Text is modelled as a sequence of Unicode code points, so that          *)
(* str.lower, str.strip, the `in` substring test and slicing are computed  *)
(* as Python computes them.  Cyrillic literals of the source are given by  *)
(* their code points, with a Latin transliteration in the comments.        *)
(***************************************************************************)
EXTENDS Integers, Sequences, FiniteSets, TLC

VARIABLES
    \* ---- pure-function harness -------------------------------------
    arg,                \* the argument handed to the function under check
    ret,                \* its result, [fn |-> "none"] before the call
    \* ---- main.py: one delivery of an update to POST /webhook --------
    pc,                 \* position of the handler
    update,             \* the payload being handled
    branch,             \* the branch of webhook() taken for it
    attempt,            \* notify_manager: loop variable `attempt`
    notification_sent,  \* notify_manager: local `notification_sent`
    file_info,          \* webhook: whether get_file_info gave a dict
    outbox,             \* Telegram API calls of this delivery, in order
    response,           \* the HTTP response of this delivery
    deliveries,         \* times the current update has been delivered
    notifications,      \* notify_manager calls over these deliveries
    replies,            \* replies to the sender over these deliveries
    \* ---- flask_app.py ------------------------------------------------
    orders_data,        \* order_id -> order record
    flask_update,       \* the last payload handled
    flask_outbox,       \* Telegram API calls of the last delivery
    flask_response,     \* the HTTP response of the last delivery
    now,                \* the wall clock, in seconds
    \* ---- services/order_management.py ------------------------------
    self_orders,        \* OrderManagementService.orders: order_id -> Order
    user_orders,        \* OrderManagementService.user_orders: user_id -> ids
    today,              \* the calendar day of datetime.now()
    \* ---- bot_production.py ------------------------------------------
    prod_user,          \* the user whose updates are followed
    conversation,       \* ConversationHandler: the state of that user
    user_language,      \* LanguageService.user_languages of that user
    pending_requests,   \* ProductRequestService.pending_requests
    prod_update,        \* the last update handled
    prod_handler,       \* the handler that took it
    prod_outbox,        \* the Telegram calls made for it, in order
    \* ---- the entry points -------------------------------------------
    boot,               \* the launch of one entry point
    \* ---- services/google_sheets_service.py and its callers ----------
    sheets,             \* the connection and the worksheets
    ledger_call,        \* the last call that records something
    \* ---- services/language_service.py --------------------------------
    user_languages,     \* LanguageService.user_languages: user_id -> code
    lang_call           \* the last call of the service and its result

order_vars == << self_orders, user_orders, today >>
prod_vars == << prod_user, conversation, user_language, pending_requests,
                prod_update, prod_handler, prod_outbox >>
sheet_vars == << sheets, ledger_call >>
lang_vars == << user_languages, lang_call >>
ext_vars == << order_vars, prod_vars, boot, sheet_vars, lang_vars >>
ext_but_orders == << prod_vars, boot, sheet_vars, lang_vars >>
ext_but_prod == << order_vars, boot, sheet_vars, lang_vars >>
ext_but_boot == << order_vars, prod_vars, sheet_vars, lang_vars >>
ext_but_sheets == << order_vars, prod_vars, boot, lang_vars >>
ext_but_lang == << order_vars, prod_vars, boot, sheet_vars >>

vars == << arg, ret, pc, update, branch, attempt, notification_sent, file_info,
           outbox, response, deliveries, notifications, replies,
           orders_data, flask_update, flask_outbox, flask_response, now,
           ext_vars >>

pure_vars == << arg, ret >>
main_vars == << pc, update, branch, attempt, notification_sent, file_info,
                outbox, response, deliveries, notifications, replies >>
flask_vars == << orders_data, flask_update, flask_outbox, flask_response, now >>

-----------------------------------------------------------------------------
(* Bounds of the model *)

\* longest run of filler characters appended to a classifier input
MaxFill == 22
\* longest run of blanks put before or after an input
MaxPad == 1
\* number of deliveries to main.py's webhook that are followed
MaxDeliveries == 2
\* last second of the modelled wall clock
MaxClock == 2
\* highest verification score handed to get_risk_assessment
MaxScore == 100
\* number of orders created through OrderManagementService.create_order
MaxOrders == 2
\* last calendar day of the modelled clock
MaxDay == 2
\* number of product requests stored by ProductRequestService
MaxRequests == 1
\* number of rows appended to a worksheet
MaxRows == 2

-----------------------------------------------------------------------------
(* Python's str operations on sequences of code points *)

Range(s) == { s[i] : i \in DOMAIN s }

\* the characters str.strip() removes (str.isspace)
Whitespace == { 9, 10, 11, 12, 13, 28, 29, 30, 31, 32, 133, 160 }

\* str.lower() of one character: A-Z, the Cyrillic capitals
lower_char(c) ==
    IF c \in 65..90 THEN c + 32
    ELSE IF c \in 1040..1071 THEN c + 32
    ELSE IF c \in 1024..1039 THEN c + 80
    ELSE c

lower(s) == [ i \in 1..Len(s) |-> lower_char(s[i]) ]

\* str.upper() of one character; used to build mixed-case inputs only
upper_char(c) ==
    IF c \in 97..122 THEN c - 32
    ELSE IF c \in 1072..1103 THEN c - 32
    ELSE IF c \in 1104..1119 THEN c - 80
    ELSE c

upper(s) == [ i \in 1..Len(s) |-> upper_char(s[i]) ]

RECURSIVE first_kept(_, _), last_kept(_, _)
\* index of the first non-blank character at or after i (Len(s) + 1 if none)
first_kept(s, i) ==
    IF i > Len(s) THEN i
    ELSE IF s[i] \notin Whitespace THEN i
    ELSE first_kept(s, i + 1)

\* index of the last non-blank character at or before i (0 if none)
last_kept(s, i) ==
    IF i < 1 THEN 0
    ELSE IF s[i] \notin Whitespace THEN i
    ELSE last_kept(s, i - 1)

strip(s) == SubSeq(s, first_kept(s, 1), last_kept(s, Len(s)))

\* Python's `sub in s` on strings
contains(sub, s) ==
    \E i \in 0..(Len(s) - Len(sub)) : SubSeq(s, i + 1, i + Len(sub)) = sub

\* Python's s[:n]
head(s, n) == IF Len(s) > n THEN SubSeq(s, 1, n) ELSE s

startswith(s, prefix) ==
    Len(s) >= Len(prefix) /\ SubSeq(s, 1, Len(prefix)) = prefix

endswith(s, suffix) ==
    Len(s) >= Len(suffix)
    /\ SubSeq(s, Len(s) - Len(suffix) + 1, Len(s)) = suffix

Pad(n) == [ i \in 1..n |-> 32 ]
Fill(n) == [ i \in 1..n |-> 120 ]

-----------------------------------------------------------------------------
(* main.py: is_real_order *)

\*    1 "kupit'"      2 "zakazat'"      3 "najti"           4 "nuzhno"
\*    5 "hochu"       6 "ischu"         7 "tovar"           8 "cena"
\*    9 "stoimost'"  10 "dostavka"     11 "kitaj"          12 "aliekspress"
\*   13 "alibaba"    14 "taobao"       15 "1688"           16 "dhgate"
\*   17 "skol'ko stoit"  18 "gde kupit'"  19 "kak zakazat'"
\*   20 "pomogite najti" 21 "pomoch' najti"
order_keywords ==
    << <<1082, 1091, 1087, 1080, 1090, 1100>>,
       <<1079, 1072, 1082, 1072, 1079, 1072, 1090, 1100>>,
       <<1085, 1072, 1081, 1090, 1080>>,
       <<1085, 1091, 1078, 1085, 1086>>,
       <<1093, 1086, 1095, 1091>>,
       <<1080, 1097, 1091>>,
       <<1090, 1086, 1074, 1072, 1088>>,
       <<1094, 1077, 1085, 1072>>,
       <<1089, 1090, 1086, 1080, 1084, 1086, 1089, 1090, 1100>>,
       <<1076, 1086, 1089, 1090, 1072, 1074, 1082, 1072>>,
       <<1082, 1080, 1090, 1072, 1081>>,
       <<1072, 1083, 1080, 1101, 1082, 1089, 1087, 1088, 1077, 1089, 1089>>,
       <<97, 108, 105, 98, 97, 98, 97>>,
       <<116, 97, 111, 98, 97, 111>>,
       <<49, 54, 56, 56>>,
       <<100, 104, 103, 97, 116, 101>>,
       <<1089, 1082, 1086, 1083, 1100, 1082, 1086, 32, 1089, 1090, 1086, 1080, 1090>>,
       <<1075, 1076, 1077, 32, 1082, 1091, 1087, 1080, 1090, 1100>>,
       <<1082, 1072, 1082, 32, 1079, 1072, 1082, 1072, 1079, 1072, 1090, 1100>>,
       <<1087, 1086, 1084, 1086, 1075, 1080, 1090, 1077, 32, 1085, 1072, 1081, 1090, 1080>>,
       <<1087, 1086, 1084, 1086, 1095, 1100, 32, 1085, 1072, 1081, 1090, 1080>> >>

\*    1 "privet"   2 "hello"   3 "hi"     4 "spasibo"   5 "thanks"  6 "ok"
\*    7 "da"       8 "net"     9 "yes"   10 "no"       11 "horosho"
\*   12 "ponyatno" 13 "yasno"  14 "ok" (Cyrillic)  15 "okej"  16 "okay"
exclude_phrases ==
    << <<1087, 1088, 1080, 1074, 1077, 1090>>,
       <<104, 101, 108, 108, 111>>,
       <<104, 105>>,
       <<1089, 1087, 1072, 1089, 1080, 1073, 1086>>,
       <<116, 104, 97, 110, 107, 115>>,
       <<111, 107>>,
       <<1076, 1072>>,
       <<1085, 1077, 1090>>,
       <<121, 101, 115>>,
       <<110, 111>>,
       <<1093, 1086, 1088, 1086, 1096, 1086>>,
       <<1087, 1086, 1085, 1103, 1090, 1085, 1086>>,
       <<1103, 1089, 1085, 1086>>,
       <<1086, 1082>>,
       <<1086, 1082, 1077, 1081>>,
       <<111, 107, 97, 121>> >>

\* is_real_order with the length fallback off by one (>= 20 for > 20)
is_real_order_fallback_from_20(text) ==
    IF Len(text) = 0 \/ Len(strip(text)) < 5 THEN FALSE
    ELSE LET text_lower == strip(lower(text))
         IN  IF \E i \in DOMAIN exclude_phrases : exclude_phrases[i] = text_lower
             THEN FALSE
             ELSE IF \E i \in DOMAIN order_keywords :
                         contains(order_keywords[i], text_lower)
             THEN TRUE
             ELSE Len(strip(text)) >= 20

is_real_order(text) ==
    IF Len(text) = 0 \/ Len(strip(text)) < 5 THEN FALSE
    ELSE LET text_lower == strip(lower(text))
         IN  IF \E i \in DOMAIN exclude_phrases : exclude_phrases[i] = text_lower
             THEN FALSE
             ELSE IF \E i \in DOMAIN order_keywords :
                         contains(order_keywords[i], text_lower)
             THEN TRUE
             ELSE IF Len(strip(text)) > 20 THEN TRUE
             ELSE FALSE

-----------------------------------------------------------------------------
(* main.py: get_file_type_info *)

image_extensions ==
    { <<46, 106, 112, 103>>, <<46, 106, 112, 101, 103>>, <<46, 112, 110, 103>>,
      <<46, 103, 105, 102>>, <<46, 98, 109, 112>>, <<46, 119, 101, 98, 112>> }
excel_extensions ==
    { <<46, 120, 108, 115, 120>>, <<46, 120, 108, 115>>, <<46, 120, 108, 115, 109>> }
pdf_extensions == { <<46, 112, 100, 102>> }
word_extensions == { <<46, 100, 111, 99, 120>>, <<46, 100, 111, 99>> }
text_extensions == { <<46, 116, 120, 116>>, <<46, 114, 116, 102>> }

get_file_type_info(file_name) ==
    IF Len(file_name) = 0 THEN "unknown"
    ELSE LET file_name_lower == lower(file_name)
         IN  IF \E ext \in image_extensions : endswith(file_name_lower, ext)
             THEN "photo"
             ELSE IF \E ext \in excel_extensions : endswith(file_name_lower, ext)
             THEN "excel"
             ELSE IF \E ext \in pdf_extensions : endswith(file_name_lower, ext)
             THEN "pdf"
             ELSE IF \E ext \in word_extensions : endswith(file_name_lower, ext)
             THEN "word"
             ELSE IF \E ext \in text_extensions : endswith(file_name_lower, ext)
             THEN "document"
             ELSE "other"

\* a list of supported types that takes image files as well
supported_types_with_images == { "excel", "pdf", "word", "document", "photo" }

supported_types == { "excel", "pdf", "word", "document" }

-----------------------------------------------------------------------------
(* main.py: the Telegram Bot API as the handler sees it *)

\* os.getenv('MANAGER_CHAT_ID', '1169659218')
MANAGER_CHAT_ID == 1169659218

\* notify_manager: max_attempts
max_attempts == 3

\* What send_message / send_photo / send_document / get_file_info hand back:
\* the decoded JSON body, or None (timeout, connection error, any exception).
OkResult == [ responded |-> TRUE, ok |-> TRUE, error_code |-> 0 ]
NoResult == [ responded |-> FALSE, ok |-> FALSE, error_code |-> 0 ]
ErrResult(code) == [ responded |-> TRUE, ok |-> FALSE, error_code |-> code ]

\* 403 blocked, 400 bad request, 429 rate limited
ApiResults == { OkResult, NoResult, ErrResult(403), ErrResult(400), ErrResult(429) }

\* results of the calls whose result the handler does not branch on
PlainResults == { OkResult, NoResult }

NoText == << >>

\* One call made by the handler.  `template` names the f-string, the other
\* fields are the values formatted into it.
Call(api, chat_id, template, user_name, content, wording, result) ==
    [ api |-> api, chat_id |-> chat_id, template |-> template,
      user_name |-> user_name, content |-> content, wording |-> wording,
      result |-> result ]

NoResponseYet == [ body |-> "", status |-> 0 ]
HttpOK == [ body |-> "OK", status |-> 200 ]
HttpError == [ body |-> "Error", status |-> 500 ]
HttpNoData == [ body |-> "No data", status |-> 400 ]

-----------------------------------------------------------------------------
(* main.py: the payloads POSTed to /webhook *)

START == <<47, 115, 116, 97, 114, 116>>                      \* "/start"
\* 'Pol'zovatel'', the default of user_data.get('first_name', ...)
DefaultUserName ==
    <<1055, 1086, 1083, 1100, 1079, 1086, 1074, 1072, 1090, 1077, 1083, 1100>>
\* 'Bez nazvaniya', the default of document.get('file_name', ...)
DefaultFileName ==
    <<1041, 1077, 1079, 32, 1085, 1072, 1079, 1074, 1072, 1085, 1080, 1103>>
Ann == <<65, 110, 110>>
\* "Hochu kupit' chasy"
WatchRequest ==
    <<1061, 1086, 1095, 1091, 32, 1082, 1091, 1087, 1080, 1090, 1100, 32,
      1095, 1072, 1089, 1099>>

\* payload: "malformed" (request.get_json() raises), "empty" (a falsy body:
\*          null, {}), "no_message" (an update without 'message'), "message".
\* photo:   "absent", "empty" (an empty list), "no_file_id", "valid".
\* document: "absent", "no_file_id", "valid".
BaseUpdate ==
    [ payload |-> "message", has_chat |-> TRUE, chat_id |-> 1,
      has_first_name |-> TRUE, first_name |-> Ann,
      has_text |-> FALSE, text |-> NoText,
      photo |-> "absent", document |-> "absent",
      has_file_name |-> FALSE, file_name |-> NoText ]

WebhookTexts ==
    { START,
      <<47, 104, 101, 108, 112>>,                              \* "/help"
      <<47>>,                                                  \* "/"
      <<32, 47, 115, 116, 97, 114, 116>>,                      \* " /start"
      NoText,                                                  \* ""
      <<72, 105>>,                                             \* "Hi"
      <<104, 101, 108, 108, 111>>,                             \* "hello"
      <<49, 54, 56, 56>>,                                      \* "1688"
      <<97, 98, 99, 100, 101, 102>>,                           \* "abcdef"
      WatchRequest,
      <<1095, 1072, 1089, 1099>>,                              \* "chasy"
      Fill(20), Fill(21), Fill(101), Fill(300), Fill(301) }

FileNames ==
    { <<112, 114, 105, 99, 101, 46, 120, 108, 115, 120>>,      \* "price.xlsx"
      <<67, 65, 84, 65, 76, 79, 71, 46, 80, 68, 70>>,          \* "CATALOG.PDF"
      <<115, 112, 101, 99, 46, 100, 111, 99, 120>>,            \* "spec.docx"
      <<110, 111, 116, 101, 115, 46, 116, 120, 116>>,          \* "notes.txt"
      <<112, 104, 111, 116, 111, 46, 106, 112, 103>>,          \* "photo.jpg"
      <<97, 114, 99, 104, 105, 118, 101, 46, 122, 105, 112>>,  \* "archive.zip"
      NoText }                                                 \* ""

Senders == { 1, MANAGER_CHAT_ID }

MessageUpdates ==
    LET from(u) ==
            { [ u EXCEPT !.chat_id = c, !.has_first_name = n,
                         !.first_name = IF n THEN Ann ELSE NoText ] :
                  c \in Senders, n \in BOOLEAN }
        texts == { [ BaseUpdate EXCEPT !.has_text = TRUE, !.text = t ] :
                       t \in WebhookTexts }
        photos == { [ BaseUpdate EXCEPT !.photo = p ] :
                        p \in { "empty", "no_file_id", "valid" } }
        named == { [ BaseUpdate EXCEPT !.document = "valid",
                                       !.has_file_name = TRUE,
                                       !.file_name = f ] : f \in FileNames }
        documents == named \cup
                     { [ BaseUpdate EXCEPT !.document = d ] :
                           d \in { "no_file_id", "valid" } }
        \* a caption-less sticker, location, contact, ...
        others == { BaseUpdate }
        \* keys Telegram does not combine, but a payload may
        mixed == { [ BaseUpdate EXCEPT !.has_text = TRUE, !.text = START,
                                       !.photo = "valid" ],
                   [ BaseUpdate EXCEPT !.has_text = TRUE, !.text = WatchRequest,
                                       !.photo = "valid" ],
                   [ BaseUpdate EXCEPT !.has_text = TRUE, !.text = WatchRequest,
                                       !.document = "valid" ],
                   [ BaseUpdate EXCEPT !.photo = "valid", !.document = "valid" ] }
        no_chat == { [ BaseUpdate EXCEPT !.has_chat = FALSE, !.has_text = TRUE,
                                         !.text = WatchRequest ] }
    IN  UNION { from(u) : u \in texts \cup photos \cup documents
                                      \cup others \cup mixed }
        \cup no_chat

Updates ==
    { [ BaseUpdate EXCEPT !.payload = p ] :
          p \in { "malformed", "empty", "no_message" } }
    \cup MessageUpdates

\* user_data.get('first_name', 'Pol'zovatel'')
user_name_of(u) == IF u.has_first_name THEN u.first_name ELSE DefaultUserName

\* document.get('file_name', 'Bez nazvaniya')
file_name_of(u) == IF u.has_file_name THEN u.file_name ELSE DefaultFileName

\* webhook() without the early return for '/'-commands
webhook_branch_answers_commands(u) ==
    IF u.payload = "malformed" THEN "raise"
    ELSE IF u.payload = "empty" THEN "no_data"
    ELSE IF u.payload = "no_message" THEN "ignore"
    ELSE IF ~u.has_chat THEN "raise"
    ELSE IF u.has_text /\ u.text = START THEN "start"
    ELSE IF u.photo # "absent"
         THEN IF u.photo = "valid" THEN "photo" ELSE "raise"
    ELSE IF u.document # "absent"
         THEN IF u.document # "valid" THEN "raise"
              ELSE IF get_file_type_info(file_name_of(u)) \notin supported_types
                   THEN "unsupported"
                   ELSE "document"
    ELSE IF u.has_text
         THEN IF is_real_order(u.text) THEN "order"
              ELSE "help"
    ELSE "ignore"

\* webhook() without the classifier: every text is notified
webhook_branch_notifies_every_text(u) ==
    IF u.payload = "malformed" THEN "raise"
    ELSE IF u.payload = "empty" THEN "no_data"
    ELSE IF u.payload = "no_message" THEN "ignore"
    ELSE IF ~u.has_chat THEN "raise"
    ELSE IF u.has_text /\ u.text = START THEN "start"
    ELSE IF u.photo # "absent"
         THEN IF u.photo = "valid" THEN "photo" ELSE "raise"
    ELSE IF u.document # "absent"
         THEN IF u.document # "valid" THEN "raise"
              ELSE IF get_file_type_info(file_name_of(u)) \notin supported_types
                   THEN "unsupported"
                   ELSE "document"
    ELSE IF u.has_text
         THEN IF startswith(u.text, <<47>>) THEN "ignore"
              ELSE "order"
    ELSE "ignore"

\* The branch of webhook() an update takes, up to its first API call:
\*   "raise"       an exception reaches the blanket handler
\*   "no_data"     the `if not data` early return
\*   "ignore"      `return "OK", 200` without any call
\*   "start", "unsupported", "help"   one reply, no notification
\*   "photo", "document", "order"     notify_manager, then one reply
webhook_branch(u) ==
    IF u.payload = "malformed" THEN "raise"
    ELSE IF u.payload = "empty" THEN "no_data"
    ELSE IF u.payload = "no_message" THEN "ignore"
    ELSE IF ~u.has_chat THEN "raise"
    ELSE IF u.has_text /\ u.text = START THEN "start"
    ELSE IF u.photo # "absent"
         THEN IF u.photo = "valid" THEN "photo" ELSE "raise"
    ELSE IF u.document # "absent"
         THEN IF u.document # "valid" THEN "raise"
              ELSE IF get_file_type_info(file_name_of(u)) \notin supported_types
                   THEN "unsupported"
                   ELSE "document"
    ELSE IF u.has_text
         THEN IF startswith(u.text, <<47>>) THEN "ignore"
              ELSE IF is_real_order(u.text) THEN "order"
              ELSE "help"
    ELSE "ignore"

NotifyingBranches == { "photo", "document", "order" }

\* the message_type argument of notify_manager in branch b
message_type(b) == IF b = "order" THEN "text" ELSE b

-----------------------------------------------------------------------------
(* main.py: notify_manager and the replies of webhook() *)

\* notify_manager: file_type_desc, from file_info (None when getFile failed;
\* for a document the webhook has put file_name into it)
file_type_desc(u, b, info) ==
    IF ~info THEN "photo_default"
    ELSE LET file_type ==
                 get_file_type_info(IF message_type(b) = "document"
                                    THEN file_name_of(u) ELSE NoText)
         IN  IF file_type \in { "excel", "pdf", "word" } THEN file_type
             ELSE "named_file"

\* notify_manager sending its text to the sender's chat
notification_to_sender(u, b, info, result) ==
    IF message_type(b) \in { "photo", "document" }
    THEN Call("sendMessage", u.chat_id, "file_request",
              user_name_of(u), NoText, file_type_desc(u, b, info), result)
    ELSE Call("sendMessage", u.chat_id, "text_request",
              user_name_of(u), head(u.text, 300), "", result)

\* notify_manager: notification_text, sent with send_message(MANAGER_CHAT_ID, ...)
notification(u, b, info, result) ==
    IF message_type(b) \in { "photo", "document" }
    THEN Call("sendMessage", MANAGER_CHAT_ID, "file_request",
              user_name_of(u), NoText, file_type_desc(u, b, info), result)
    ELSE Call("sendMessage", MANAGER_CHAT_ID, "text_request",
              user_name_of(u), head(u.text, 300), "", result)

\* notify_manager: send_photo / send_document of the user's file
file_forward(u, b, result) ==
    Call(IF message_type(b) = "photo" THEN "sendPhoto" ELSE "sendDocument",
         MANAGER_CHAT_ID, "file_forward", user_name_of(u), NoText, "", result)

\* a reply that always says the manager has been notified
wording_of_always_notified(sent) == "already_notified"

\* 'uzhe poluchil uvedomlenie' if notification_sent else 'poluchit uvedomlenie'
wording_of(sent) == IF sent THEN "already_notified" ELSE "will_be_notified"

\* webhook: the one send_message(chat_id, ...) of each replying branch
reply(u, b, sent, result) ==
        CASE b = "start" ->
               Call("sendMessage", u.chat_id, "welcome", user_name_of(u),
                    NoText, "", result)
          [] b = "photo" ->
               Call("sendMessage", u.chat_id, "photo_confirmation",
                    user_name_of(u), NoText, wording_of(sent), result)
          [] b = "unsupported" ->
               Call("sendMessage", u.chat_id, "unsupported_format",
                    user_name_of(u), file_name_of(u), "", result)
          [] b = "document" ->
               Call("sendMessage", u.chat_id, "document_confirmation",
                    user_name_of(u), file_name_of(u), wording_of(sent), result)
          [] b = "order" ->
               Call("sendMessage", u.chat_id, "text_confirmation",
                    user_name_of(u), head(u.text, 100), wording_of(sent), result)
          [] OTHER ->
               Call("sendMessage", u.chat_id, "help", user_name_of(u),
                    NoText, "", result)

\* time.sleep(2) between attempts
pause == Call("time.sleep", 0, "", NoText, NoText, "", NoResult)

\* webhook() with a record of processed updates: a repeated delivery of the
\* update just handled is answered without being processed again
webhook_entry_dedup(u) ==
    LET b == IF pc = "done" /\ u = update THEN "ignore" ELSE webhook_branch(u)
    IN  /\ update' = u
        /\ branch' = b
        /\ outbox' = << >>
        /\ attempt' = 0
        /\ notification_sent' = FALSE
        /\ file_info' = FALSE
        /\ response' = CASE b = "raise" -> HttpError
                         [] b = "no_data" -> HttpNoData
                         [] b = "ignore" -> HttpOK
                         [] OTHER -> NoResponseYet
        /\ pc' = CASE b \in { "raise", "no_data", "ignore" } -> "done"
                   [] b \in { "photo", "document" } -> "get_file"
                   [] b = "order" -> "notify"
                   [] OTHER -> "reply"

\* webhook(): from request.get_json() to the first API call of the branch
webhook_entry(u) ==
    LET b == webhook_branch(u)
    IN  /\ update' = u
        /\ branch' = b
        /\ outbox' = << >>
        /\ attempt' = 0
        /\ notification_sent' = FALSE
        /\ file_info' = FALSE
        /\ response' = CASE b = "raise" -> HttpError
                         [] b = "no_data" -> HttpNoData
                         [] b = "ignore" -> HttpOK
                         [] OTHER -> NoResponseYet
        /\ pc' = CASE b \in { "raise", "no_data", "ignore" } -> "done"
                   [] b \in { "photo", "document" } -> "get_file"
                   [] b = "order" -> "notify"
                   [] OTHER -> "reply"

\* A first delivery of an update.
Deliver ==
    /\ pc = "idle"
    /\ \E u \in Updates : webhook_entry(u)
    /\ deliveries' = 1
    /\ notifications' = 0
    /\ replies' = 0
    /\ UNCHANGED << pure_vars, flask_vars, ext_vars >>

\* The update just handled is POSTed again (Telegram redelivers an update
\* whose delivery failed or timed out; any client may repeat a POST).
Redeliver ==
    /\ pc = "done"
    /\ deliveries < MaxDeliveries
    /\ webhook_entry(update)
    /\ deliveries' = deliveries + 1
    /\ UNCHANGED << notifications, replies, pure_vars, flask_vars, ext_vars >>

\* The update is not delivered again: the server waits for the next one.
Forget ==
    /\ pc = "done"
    /\ pc' = "idle"
    /\ update' = [ BaseUpdate EXCEPT !.payload = "no_message" ]
    /\ branch' = "ignore"
    /\ attempt' = 0
    /\ notification_sent' = FALSE
    /\ file_info' = FALSE
    /\ outbox' = << >>
    /\ response' = NoResponseYet
    /\ deliveries' = 0
    /\ notifications' = 0
    /\ replies' = 0
    /\ UNCHANGED << pure_vars, flask_vars, ext_vars >>

\* webhook: file_info = get_file_info(file_id), then notify_manager is called
GetFile ==
    /\ pc = "get_file"
    /\ \E r \in PlainResults :
          /\ outbox' = Append(outbox, Call("getFile", 0, "", NoText, NoText, "", r))
          /\ file_info' = r.ok
    /\ pc' = "notify"
    /\ UNCHANGED << update, branch, attempt, notification_sent, response, deliveries,
                    notifications, replies, pure_vars, flask_vars, ext_vars >>

\* notify_manager that forwards the file whether or not the text went out
after_loop_always_forwards(b, sent) ==
    IF message_type(b) \in { "photo", "document" }
    THEN "send_file" ELSE "reply"

\* where notify_manager goes when its loop is left
after_loop(b, sent) ==
    IF sent /\ message_type(b) \in { "photo", "document" }
    THEN "send_file" ELSE "reply"

\* notify_manager that gives up on any error response, not only 403 and 400
attempt_outcome_any_code_breaks(r, n) ==
    IF r.responded /\ r.ok THEN "sent"
    ELSE IF r.responded /\ r.error_code # 0 THEN "break"
    ELSE IF n < max_attempts - 1 THEN "sleep"
    ELSE "next"

\* notify_manager without the `break` after a successful attempt that is not
\* the last one
attempt_outcome_ok_not_final(r, n) ==
    IF r.responded /\ r.ok /\ n >= max_attempts - 1 THEN "sent"
    ELSE IF r.responded /\ r.error_code = 403 THEN "break"
    ELSE IF r.responded /\ r.error_code = 400 THEN "break"
    ELSE IF n < max_attempts - 1 THEN "sleep"
    ELSE "next"

\* notify_manager that retries whatever the error code
attempt_outcome_no_break(r, n) ==
    IF r.responded /\ r.ok THEN "sent"
    ELSE IF n < max_attempts - 1 THEN "sleep"
    ELSE "next"

\* notify_manager that pauses after every failed attempt, the last included
attempt_outcome_always_pauses(r, n) ==
    IF r.responded /\ r.ok THEN "sent"
    ELSE IF r.responded /\ r.error_code = 403 THEN "break"
    ELSE IF r.responded /\ r.error_code = 400 THEN "break"
    ELSE "sleep"

\* notify_manager: what the loop body does with the result of attempt n
attempt_outcome(r, n) ==
    IF r.responded /\ r.ok THEN "sent"
    ELSE IF r.responded /\ r.error_code = 403 THEN "break"
    ELSE IF r.responded /\ r.error_code = 400 THEN "break"
    ELSE IF n < max_attempts - 1 THEN "sleep"
    ELSE "next"

\* notify_manager: one iteration of `for attempt in range(max_attempts)`
NotifyAttempt ==
    /\ pc = "notify"
    /\ \E r \in ApiResults :
          LET outcome == attempt_outcome(r, attempt)
          IN  /\ outbox' = Append(outbox, notification(update, branch, file_info, r))
              /\ notification_sent' = (outcome = "sent")
              /\ attempt' = IF outcome = "next" THEN attempt + 1 ELSE attempt
              /\ pc' = CASE outcome = "sent" -> after_loop(branch, TRUE)
                         [] outcome = "break" -> after_loop(branch, FALSE)
                         [] outcome = "sleep" -> "sleep"
                         [] OTHER ->
                              IF attempt + 1 < max_attempts THEN "notify"
                              ELSE after_loop(branch, FALSE)
    /\ notifications' = IF attempt = 0 THEN notifications + 1 ELSE notifications
    /\ UNCHANGED << update, branch, file_info, response, deliveries, replies,
                    pure_vars, flask_vars, ext_vars >>

\* notify_manager: time.sleep(2), then the next iteration
Sleep ==
    /\ pc = "sleep"
    /\ outbox' = Append(outbox, pause)
    /\ attempt' = attempt + 1
    /\ pc' = IF attempt + 1 < max_attempts THEN "notify"
             ELSE after_loop(branch, FALSE)
    /\ UNCHANGED << update, branch, notification_sent, file_info, response, deliveries,
                    notifications, replies, pure_vars, flask_vars, ext_vars >>

\* notify_manager: the file is forwarded once the text notification is sent
SendFile ==
    /\ pc = "send_file"
    /\ \E r \in PlainResults : outbox' = Append(outbox, file_forward(update, branch, r))
    /\ pc' = "reply"
    /\ UNCHANGED << update, branch, attempt, notification_sent, file_info, response,
                    deliveries, notifications, replies, pure_vars, flask_vars, ext_vars >>

\* webhook: send_message(chat_id, response_text); return "OK", 200
Reply ==
    /\ pc = "reply"
    /\ \E r \in PlainResults :
          outbox' = Append(outbox, reply(update, branch, notification_sent, r))
    /\ response' = HttpOK
    /\ replies' = replies + 1
    /\ pc' = "done"
    /\ UNCHANGED << update, branch, attempt, notification_sent, file_info, deliveries,
                    notifications, pure_vars, flask_vars, ext_vars >>

-----------------------------------------------------------------------------
(* services/supplier_verification.py *)

\* SupplierVerificationService.mock_suppliers, in insertion order:
\*   "shenzhen audio tech co", "guangzhou cable manufacturing",
\*   "dongguan plastic industries"
mock_suppliers ==
    << [ key |-> <<115, 104, 101, 110, 122, 104, 101, 110, 32, 97, 117, 100,
                   105, 111, 32, 116, 101, 99, 104, 32, 99, 111>>,
         company_name |-> "Shenzhen Audio Tech Co., Ltd",
         verification_score |-> 92 ],
       [ key |-> <<103, 117, 97, 110, 103, 122, 104, 111, 117, 32, 99, 97, 98,
                   108, 101, 32, 109, 97, 110, 117, 102, 97, 99, 116, 117, 114,
                   105, 110, 103>>,
         company_name |-> "Guangzhou Cable Manufacturing Ltd",
         verification_score |-> 88 ],
       [ key |-> <<100, 111, 110, 103, 103, 117, 97, 110, 32, 112, 108, 97, 115,
                   116, 105, 99, 32, 105, 110, 100, 117, 115, 116, 114, 105,
                   101, 115>>,
         company_name |-> "Dongguan Plastic Industries Co.",
         verification_score |-> 75 ] >>

\* Python's None as a lookup result
NoSupplier == [ key |-> << >>, company_name |-> "None", verification_score |-> 0 ]

\* verify_supplier without the .lower() of the query
verify_supplier_case_sensitive(company_name) ==
    LET company_key == strip(company_name)
        exact == { i \in DOMAIN mock_suppliers : mock_suppliers[i].key = company_key }
        partial == { i \in DOMAIN mock_suppliers :
                        \/ contains(company_key, mock_suppliers[i].key)
                        \/ contains(mock_suppliers[i].key, company_key) }
    IN  IF exact # {} THEN mock_suppliers[CHOOSE i \in exact : TRUE]
        ELSE IF partial # {}
             THEN mock_suppliers[CHOOSE i \in partial : \A j \in partial : i <= j]
             ELSE NoSupplier

\* verify_supplier that accepts a query only when it is part of a key
verify_supplier_one_way(company_name) ==
    LET company_key == strip(lower(company_name))
        exact == { i \in DOMAIN mock_suppliers : mock_suppliers[i].key = company_key }
        partial == { i \in DOMAIN mock_suppliers :
                        contains(company_key, mock_suppliers[i].key) }
    IN  IF exact # {} THEN mock_suppliers[CHOOSE i \in exact : TRUE]
        ELSE IF partial # {}
             THEN mock_suppliers[CHOOSE i \in partial : \A j \in partial : i <= j]
             ELSE NoSupplier

\* SupplierVerificationService.verify_supplier
verify_supplier(company_name) ==
    LET company_key == strip(lower(company_name))
        \* `company_key in self.mock_suppliers`: a dict has one entry per key
        exact == { i \in DOMAIN mock_suppliers : mock_suppliers[i].key = company_key }
        \* `company_key in key or key in company_key`
        partial == { i \in DOMAIN mock_suppliers :
                        \/ contains(company_key, mock_suppliers[i].key)
                        \/ contains(mock_suppliers[i].key, company_key) }
    IN  IF exact # {} THEN mock_suppliers[CHOOSE i \in exact : TRUE]
        ELSE IF partial # {}
             THEN mock_suppliers[CHOOSE i \in partial : \A j \in partial : i <= j]
             ELSE NoSupplier

-----------------------------------------------------------------------------
\* get_risk_assessment with the boundary scores in the lower branch
get_risk_assessment_strict(verification_score, lang) ==
    IF verification_score > 85
    THEN [ title |-> << "recommended_supplier", lang >>,
           bullets |-> "High verification score" ]
    ELSE IF verification_score > 70
         THEN [ title |-> << "proceed_caution", lang >>,
                bullets |-> "Moderate verification score" ]
         ELSE [ title |-> << "high_risk", lang >>,
                bullets |-> "Low verification score" ]

\* SupplierVerificationService.get_risk_assessment: the verdict block that
\* follows the header.  `lang` is "none" when the call has no
\* language_service or user_id, else the language of the user; the title is
\* then LanguageService.get_text(user_id, <key>).
get_risk_assessment(verification_score, lang) ==
    IF verification_score >= 85
    THEN [ title |-> << "recommended_supplier", lang >>,
           bullets |-> "High verification score" ]
    ELSE IF verification_score >= 70
         THEN [ title |-> << "proceed_caution", lang >>,
                bullets |-> "Moderate verification score" ]
         ELSE [ title |-> << "high_risk", lang >>,
                bullets |-> "Low verification score" ]

-----------------------------------------------------------------------------
(* flask_app.py: the /webhook handler and create_order *)

ADMIN_IDS == { 1169659218 }

FlaskSenders == { 1, 1169659218 }

\* the page Flask itself answers with when a view returns None
\* ("The view function did not return a valid response")
HttpInternalServerError == [ body |-> "Internal Server Error", status |-> 500 ]

\* payload: "malformed" (get_json() raises), "none" (get_json() gives None),
\*          "no_keys" (neither 'callback_query' nor 'message'),
\*          "callback" (data names the button), "message" (data names the kind)
\* order:   the order id a button 'order_<id>' carries, -1 for any other payload
CallbackData ==
    { "search", "verify", "orders", "tracking", "admin", "help", "language",
      "back", "admin_orders", "admin_users", "admin_stats", "admin_other",
      "order", "lang", "unknown" }

MessageKinds ==
    { "start", "photo", "photo_empty", "document", "document_unsupported",
      "text", "command", "other" }

OrderIds == 0..MaxClock

FlaskUpdates ==
    { [ payload |-> p, chat_id |-> 1, data |-> "", order |-> -1 ] :
          p \in { "malformed", "none", "no_keys" } }
    \cup { [ payload |-> "callback", chat_id |-> c, data |-> d, order |-> -1 ] :
               c \in FlaskSenders, d \in CallbackData \ { "order" } }
    \cup { [ payload |-> "callback", chat_id |-> c, data |-> "order", order |-> o ] :
               c \in FlaskSenders, o \in OrderIds \cup { MaxClock + 1 } }
    \cup { [ payload |-> "message", chat_id |-> c, data |-> k, order |-> -1 ] :
               c \in FlaskSenders, k \in MessageKinds }

\* the messages of webhook() that end in create_order
OrderCreating == { "photo", "document", "text" }

\* create_order: order_id = "ORD" + the current second; the entry is stored
\* under that id.  Of the entry, user_id and status are kept: no branch of
\* the handler reads the product text or the creation time of a stored order.
create_order(orders, user_id, second) ==
    [ id \in (DOMAIN orders) \cup { second } |->
        IF id = second
        THEN [ user_id |-> user_id, status |-> "pending" ]
        ELSE orders[id] ]

\* webhook(): the response of the view function
flask_view_response(u, orders) ==
    CASE u.payload \in { "malformed", "none" } -> HttpError
      [] u.payload = "no_keys" -> HttpOK
      [] u.payload = "callback" ->
           IF u.data \in { "admin_orders", "admin_users", "admin_stats", "admin_other" }
           THEN IF u.chat_id \notin ADMIN_IDS
                THEN HttpInternalServerError        \* the bare `return`
                ELSE IF u.data = "admin_other"
                     THEN HttpError                 \* response_text is unbound
                     ELSE HttpOK
           ELSE HttpOK
      [] OTHER ->
           IF u.data = "photo_empty" THEN HttpError  \* max() of an empty list
           ELSE HttpOK

\* webhook(): orders_data after the update is handled
flask_orders_after(u, orders, second) ==
    IF u.payload = "message" /\ u.data \in OrderCreating
    THEN create_order(orders, u.chat_id, second)
    ELSE IF u.payload = "callback" /\ u.data = "order" /\ u.order \in DOMAIN orders
    THEN [ orders EXCEPT ![u.order].status = "confirmed" ]
    ELSE orders

\* webhook(): the Telegram calls made for the update, in order
flask_calls(u, orders) ==
    CASE u.payload = "callback" ->
           << "answerCallbackQuery" >> \o
           ( IF u.data = "admin_other" /\ u.chat_id \in ADMIN_IDS THEN << >>
             ELSE IF u.data = "unknown" THEN << >>
             ELSE IF u.data = "lang"
                  THEN << "editMessageText", "time.sleep", "editMessageText" >>
                  ELSE << "editMessageText" >> )
      [] u.payload = "message" ->
           IF u.data \in { "command", "other", "photo_empty" } THEN << >>
           ELSE IF u.data \in { "photo", "document" }
                THEN << "getFile", "sendMessage" >>
                ELSE << "sendMessage" >>
      [] OTHER -> << >>

\* One POST /webhook handled from start to end.
FlaskWebhook ==
    /\ \E u \in FlaskUpdates :
          /\ u.data = "lang" => now + 2 <= MaxClock
          /\ flask_update' = u
          /\ flask_response' = flask_view_response(u, orders_data)
          /\ orders_data' = flask_orders_after(u, orders_data, now)
          /\ flask_outbox' = flask_calls(u, orders_data)
          /\ now' = IF u.data = "lang" THEN now + 2 ELSE now
    /\ UNCHANGED << pure_vars, main_vars, ext_vars >>

\* A second passes.
Tick ==
    /\ now < MaxClock
    /\ now' = now + 1
    /\ UNCHANGED << orders_data, flask_update, flask_outbox, flask_response,
                    pure_vars, main_vars, ext_vars >>

-----------------------------------------------------------------------------
(* The inputs of the pure functions *)

NotCalled == [ fn |-> "none" ]

ClassifierCores ==
    Range(order_keywords) \cup Range(exclude_phrases)
    \cup { NoText, <<97, 98, 99>>, <<97, 98, 99, 100>>, <<111, 107, 32, 111, 107>> }

\* blanks, an optional leading filler character, a core in lower or upper
\* case, a run of filler characters, blanks
TextInputs ==
    { Pad(l) \o Fill(f) \o (IF up THEN upper(c) ELSE c) \o Fill(n) \o Pad(r) :
          l \in 0..MaxPad, f \in 0..1, up \in BOOLEAN, c \in ClassifierCores,
          n \in 0..MaxFill, r \in 0..MaxPad }

SupplierKeys == { mock_suppliers[i].key : i \in DOMAIN mock_suppliers }

\* every part of every key, and every key with text around it
QueryCores ==
    UNION { { SubSeq(k, i, j) : i \in 1..Len(k), j \in 0..Len(k) } :
                k \in SupplierKeys }
    \cup { Fill(m) \o k \o Fill(n) : k \in SupplierKeys, m \in 0..1, n \in 0..1 }
    \cup { <<117, 110, 107, 110, 111, 119, 110, 32, 99, 111>>,      \* "unknown co"
           <<83, 104, 101, 110, 122, 104, 101, 110, 32, 65, 117, 100, 105, 111>> }
                                                                   \* "Shenzhen Audio"

QueryInputs ==
    { Pad(l) \o (IF up THEN upper(c) ELSE c) \o Fill(n) \o Pad(r) :
          l \in 0..MaxPad, up \in BOOLEAN, c \in QueryCores, n \in 0..1,
          r \in 0..MaxPad }

-----------------------------------------------------------------------------
(* services/order_management.py and services/admin_service.py *)

\* OrderStatus, in definition order
OrderStatus ==
    << "pending", "confirmed", "production", "shipped", "delivered", "cancelled" >>

\* An order id "ORD-<date>-<nnn>" is the pair << date, nnn >>.  The mock
\* order "ORD-2024-001" has the date part "2024", which is no %Y%m%d day:
\* it is day 0 here, the days of the clock being 1, 2, ...
MockOrderId == << 0, 1 >>
None == "None"
MockUser == 123456789
OrderUsers == { 1, MockUser }

\* OrderManagementService.__init__ and _create_mock_orders
OrderIdle ==
    /\ self_orders = [ id \in { MockOrderId } |->
                          [ user_id |-> MockUser, status |-> "production",
                            tracking_number |-> "SF1234567890" ] ]
    /\ user_orders = [ u \in { MockUser } |-> << MockOrderId >> ]
    /\ today = 1

\* f"ORD-{datetime.now().strftime('%Y%m%d')}-{len(self.orders) + 1:03d}"
new_order_id(orders, day) == << day, Cardinality(DOMAIN orders) + 1 >>

\* self.orders[order_id] = order
put_order(orders, order_id, order) ==
    [ id \in DOMAIN orders \cup { order_id } |->
         IF id = order_id THEN order ELSE orders[id] ]

\* self.user_orders[user_id].append(order_id), the list created when missing
append_user_order(lists, user_id, order_id) ==
    [ u \in DOMAIN lists \cup { user_id } |->
         IF u = user_id
         THEN (IF u \in DOMAIN lists THEN lists[u] ELSE << >>) \o << order_id >>
         ELSE lists[u] ]

\* AdminService.get_all_orders: one entry per position of every user's list
\* whose id is in the order map
get_all_orders(orders, lists) ==
    { << u, i >> \in UNION { { << u, i >> : i \in DOMAIN lists[u] } : u \in DOMAIN lists } :
         lists[u][i] \in DOMAIN orders }

\* a dashboard that leaves the cancelled orders out of their count
format_admin_dashboard_no_cancelled(orders, lists) ==
    LET all_orders == get_all_orders(orders, lists)
        status_of(p) == orders[lists[p[1]][p[2]]].status
    IN  [ total |-> Cardinality(all_orders),
          status_counts |->
             [ s \in { OrderStatus[i] : i \in DOMAIN OrderStatus } |->
                  IF s = "cancelled" THEN 0
                  ELSE Cardinality({ p \in all_orders : status_of(p) = s }) ] ]

\* AdminService.format_admin_dashboard: the numbers put in the message
format_admin_dashboard(orders, lists) ==
    LET all_orders == get_all_orders(orders, lists)
        status_of(p) == orders[lists[p[1]][p[2]]].status
    IN  [ total |-> Cardinality(all_orders),
          status_counts |->
             [ s \in { OrderStatus[i] : i \in DOMAIN OrderStatus } |->
                  Cardinality({ p \in all_orders : status_of(p) = s }) ] ]

\* OrderManagementService.create_order
CreateOrder ==
    /\ Cardinality(DOMAIN self_orders) < 1 + MaxOrders
    /\ \E user_id \in OrderUsers :
          LET order_id == new_order_id(self_orders, today)
          IN  /\ self_orders' = put_order(self_orders, order_id,
                                   [ user_id |-> user_id, status |-> "pending",
                                     tracking_number |-> None ])
              /\ user_orders' = append_user_order(user_orders, user_id, order_id)
    /\ ret' = NotCalled
    /\ UNCHANGED << arg, today, main_vars, flask_vars, ext_but_orders >>

\* OrderManagementService.update_order_status, for a known or an unknown id
UpdateOrderStatus ==
    /\ \E order_id \in DOMAIN self_orders \cup { << today, 0 >> },
          i \in DOMAIN OrderStatus :
          self_orders' =
             IF order_id \notin DOMAIN self_orders THEN self_orders
             ELSE [ self_orders EXCEPT ![order_id].status = OrderStatus[i] ]
    /\ ret' = NotCalled
    /\ UNCHANGED << arg, user_orders, today, main_vars, flask_vars, ext_but_orders >>

\* the tracking numbers an admin may pass (those of logistics_tracking.py)
TrackingNumbers == { "SF1234567890", "DHL9876543210" }

\* bool(x) of an Optional[str]
truthy(x) == x # None /\ x # ""

\* OrderManagementService.update_order_status(order_id, status,
\* google_sheets_service, tracking_number), the third argument being None or
\* a str: `google_sheets_service.is_connected()` on a str is an
\* AttributeError, raised after the assignments
update_order_status(orders, order_id, status, google_sheets_service, tracking_number) ==
    IF order_id \notin DOMAIN orders
    THEN [ orders |-> orders, returned |-> "False", raised |-> "none" ]
    ELSE LET with_status == [ orders EXCEPT ![order_id].status = status ]
             updated ==
                IF truthy(tracking_number)
                THEN [ with_status EXCEPT ![order_id].tracking_number = tracking_number ]
                ELSE with_status
         IN  IF truthy(google_sheets_service)
             THEN [ orders |-> updated, returned |-> None, raised |-> "AttributeError" ]
             ELSE [ orders |-> updated, returned |-> "True", raised |-> "none" ]

\* AdminService.update_order_status:
\* self.order_service.update_order_status(order_id, new_status, tracking_number)
admin_update_order_status(orders, order_id, new_status, tracking_number) ==
    update_order_status(orders, order_id, new_status, tracking_number, None)

\* AdminService.update_order_status, for a known or an unknown id, with or
\* without a tracking number
AdminUpdateOrderStatus ==
    /\ \E order_id \in DOMAIN self_orders \cup { << today, 0 >> },
          i \in DOMAIN OrderStatus,
          tracking_number \in TrackingNumbers \cup { None } :
          LET r == admin_update_order_status(self_orders, order_id, OrderStatus[i],
                                             tracking_number)
          IN  /\ self_orders' = r.orders
              /\ ret' = [ fn |-> "AdminService.update_order_status",
                          order_id |-> order_id, new_status |-> OrderStatus[i],
                          tracking_number |-> tracking_number,
                          returned |-> r.returned, raised |-> r.raised ]
    /\ UNCHANGED << arg, user_orders, today, main_vars, flask_vars, ext_but_orders >>

\* AdminService.format_admin_dashboard
FormatAdminDashboard ==
    /\ ret' = [ fn |-> "format_admin_dashboard",
                value |-> format_admin_dashboard(self_orders, user_orders) ]
    /\ UNCHANGED << arg, order_vars, main_vars, flask_vars, ext_but_orders >>

\* midnight
NextDay ==
    /\ today < MaxDay
    /\ today' = today + 1
    /\ UNCHANGED << pure_vars, self_orders, user_orders, main_vars, flask_vars, ext_but_orders >>

-----------------------------------------------------------------------------
(* bot_production.py: the handlers and the conversation table *)

\* AdminService.admin_users
admin_users == { 123456789, 987654321, 1169659218 }

\* AdminService.is_admin
is_admin(user_id) == user_id \in admin_users

\* the users whose conversation is followed: one who is no admin, one who is
ProdUsers == { 1, 1169659218 }

\* the conversation states; Idle is a user with no conversation under way,
\* END is ConversationHandler.END, None a handler that returns nothing
SEARCH_PRODUCT == "SEARCH_PRODUCT"
VERIFY_SUPPLIER == "VERIFY_SUPPLIER"
TRACK_SHIPMENT == "TRACK_SHIPMENT"
SELECT_LANGUAGE == "SELECT_LANGUAGE"
ADMIN_PANEL == "ADMIN_PANEL"
AWAIT_PRODUCT_IMAGE == "AWAIT_PRODUCT_IMAGE"
Idle == "idle"
END == "END"

NamedStates ==
    { SEARCH_PRODUCT, VERIFY_SUPPLIER, TRACK_SHIPMENT, SELECT_LANGUAGE,
      ADMIN_PANEL, AWAIT_PRODUCT_IMAGE }

\* callback data, split at '_': 'admin_all' is << "admin", "all" >>
ProdCallbackData ==
    { << "search" >>, << "search", "text" >>, << "search", "image" >>,
      << "verify" >>, << "orders" >>, << "tracking" >>, << "language" >>,
      << "admin" >>, << "admin", "all" >>, << "admin", "pending" >>,
      << "admin", "active" >>, << "admin", "export" >>,
      << "lang", "en" >>, << "lang", "ru" >>, << "lang", "de" >>,
      << "help" >>, << "back" >>, << "noop" >> }

\* where an exception is raised while the update is handled:
\*   "none"   nowhere
\*   "own"    in the handler itself, at its first Telegram call
\*   "helper" in the handler it calls (show_search_options,
\*            show_language_selection, show_admin_panel, show_help, start_menu),
\*            at the Telegram call that sends the helper's content
ProdFaults == { "none", "own", "helper" }

\* kind: "callback" (data: the button), "command" (data: its name),
\*       "text" (text that is no command), "photo", "sticker" (anything else)
\* error_send_fails: the Telegram call that reports an error raises as well
\* file_path: whether getFile gives a file_path for a photo
ProdUpdates ==
    { u \in
        [ kind : { "callback" }, data : ProdCallbackData, fault : ProdFaults,
          error_send_fails : BOOLEAN, file_path : { TRUE } ]
        \cup [ kind : { "command" },
               data : { << "start" >>, << "help" >>, << "cancel" >>, << "search" >> },
               fault : ProdFaults, error_send_fails : BOOLEAN, file_path : { TRUE } ]
        \cup [ kind : { "text", "sticker" }, data : { << >> },
               fault : { "none", "own" }, error_send_fails : BOOLEAN,
               file_path : { TRUE } ]
        \cup [ kind : { "photo" }, data : { << >> }, fault : { "none", "own" },
               error_send_fails : BOOLEAN, file_path : BOOLEAN ] :
        u.fault = "none" => ~ u.error_send_fails }

\* pattern='^(search|verify|tracking|language|admin)$'
entry_pattern(data) ==
    /\ Len(data) = 1
    /\ data[1] \in { "search", "verify", "tracking", "language", "admin" }

\* pattern='^lang_' and pattern='^admin_', and str.startswith of the same
starts_with_word(data, word) == Len(data) >= 2 /\ data[1] = word

\* ConversationHandler.states: the handler a state offers for the update
state_handler(state, u) ==
    CASE state \in { SEARCH_PRODUCT, VERIFY_SUPPLIER, TRACK_SHIPMENT } /\ u.kind = "text" ->
           ( CASE state = SEARCH_PRODUCT -> "handle_search"
               [] state = VERIFY_SUPPLIER -> "handle_verification"
               [] OTHER -> "handle_tracking" )
      [] state = AWAIT_PRODUCT_IMAGE /\ u.kind = "photo" -> "handle_image_search"
      [] state = SELECT_LANGUAGE /\ u.kind = "callback"
            /\ starts_with_word(u.data, "lang") -> "button"
      [] state = ADMIN_PANEL /\ u.kind = "callback"
            /\ starts_with_word(u.data, "admin") -> "button"
      [] OTHER -> "none"

\* a conversation handler registered without fallbacks
conversation_handler_no_fallbacks(state, u) ==
    IF state = Idle
    THEN (IF u.kind = "callback" /\ entry_pattern(u.data) THEN "button" ELSE "none")
    ELSE state_handler(state, u)

\* ConversationHandler.check_update: entry points for a user with no
\* conversation, else the handlers of the state and then the fallbacks
conversation_handler(state, u) ==
    IF state = Idle
    THEN (IF u.kind = "callback" /\ entry_pattern(u.data) THEN "button" ELSE "none")
    ELSE IF state_handler(state, u) # "none" THEN state_handler(state, u)
         ELSE IF u.kind = "command" /\ u.data = << "cancel" >> THEN "cancel"
              ELSE "none"

\* Application.process_update over the handlers in the order main() adds
\* them: /start, /help, the conversation handler, the catch-all button
\* handler.  The first handler that accepts the update runs, alone; only a
\* handler run by the conversation handler moves the conversation.
dispatch(state, u) ==
    CASE u.kind = "command" /\ u.data = << "start" >> ->
           [ handler |-> "start", in_conversation |-> FALSE ]
      [] u.kind = "command" /\ u.data = << "help" >> ->
           [ handler |-> "show_help", in_conversation |-> FALSE ]
      [] conversation_handler(state, u) # "none" ->
           [ handler |-> conversation_handler(state, u), in_conversation |-> TRUE ]
      [] u.kind = "callback" ->
           [ handler |-> "button", in_conversation |-> FALSE ]
      [] OTHER -> [ handler |-> "none", in_conversation |-> FALSE ]

\* one Telegram call made while an update is handled
Tg(api, content) == [ api |-> api, content |-> content ]

\* query.edit_message_text for a button press, message.reply_text otherwise
send_content(u, content) ==
    Tg(IF u.kind = "callback" THEN "edit_message_text" ELSE "reply_text", content)

\* handle_errors, the except branch: the error text goes out as an alert for
\* a button press and as a reply for a message, unless that call raises too
error_report(u) ==
    IF u.error_send_fails THEN << >>
    ELSE << Tg(IF u.kind = "callback" THEN "answer_alert" ELSE "reply_text",
               "error_occurred") >>

\* what a handler gives back: the calls it made, its return value, the
\* product request it stored ("none", "text", "image") and the language it
\* set ("keep" when it set none)
Outcome(messages, result, request, language) ==
    [ messages |-> messages, result |-> result, request |-> request,
      language |-> language ]

\* handle_errors around a handler that failed
Caught(u, messages, request) ==
    Outcome(messages \o error_report(u), END, request, "keep")

AdminContent ==
    { "admin_dashboard", "orders_list_all", "orders_list_pending",
      "orders_list_active" }

\* the content each helper sends
helper_content(name, user_id) ==
    CASE name = "show_search_options" -> "search_options"
      [] name = "show_language_selection" -> "select_language"
      [] name = "show_admin_panel" ->
           IF is_admin(user_id) THEN "admin_dashboard" ELSE "access_denied"
      [] name = "show_help" -> "help"
      [] OTHER -> "welcome"

\* a helper handler called from another handler.  It is decorated with
\* handle_errors itself: an exception raised in it is reported by its own
\* wrapper, which returns END to the caller.
call_helper(name, u, user_id) ==
    IF u.fault = "helper"
    THEN Caught(u, << >>, "none")
    ELSE Outcome(<< send_content(u, helper_content(name, user_id)) >>, None,
                 "none", "keep")

\* the body of button() after query.answer()
button_body(u, user_id) ==
    LET data == u.data
        own(content, result) ==
            Outcome(<< send_content(u, content) >>, result, "none", "keep")
        helped(name, result) ==
            Outcome(call_helper(name, u, user_id).messages, result, "none", "keep")
    IN  CASE data = << "search" >> -> helped("show_search_options", SEARCH_PRODUCT)
          [] data = << "search", "text" >> -> own("product_search_title", SEARCH_PRODUCT)
          [] data = << "search", "image" >> -> own("product_image_title", AWAIT_PRODUCT_IMAGE)
          [] data = << "verify" >> -> own("supplier_verification_title", VERIFY_SUPPLIER)
          [] data = << "orders" >> -> own("order_summary", END)
          [] data = << "tracking" >> -> own("track_shipment_title", TRACK_SHIPMENT)
          [] data = << "language" >> -> helped("show_language_selection", SELECT_LANGUAGE)
          [] data = << "admin" >> ->
               IF is_admin(user_id) THEN helped("show_admin_panel", ADMIN_PANEL)
               ELSE own("access_denied", END)
          [] starts_with_word(data, "admin") ->
               IF ~ is_admin(user_id) THEN own("access_denied", END)
               ELSE IF data[2] \in { "all", "pending", "active" }
                    THEN own("orders_list_" \o data[2], END)
                    ELSE own("Unknown action", END)
          [] starts_with_word(data, "lang") ->
               Outcome(<< send_content(u, "language_changed"), Tg("sleep", "1") >>
                          \o call_helper("start_menu", u, user_id).messages,
                       END, "none",
                       IF data[2] \in { "en", "ru" } THEN data[2] ELSE "keep")
          [] data = << "help" >> -> helped("show_help", END)
          [] data = << "back" >> -> helped("start_menu", END)
          [] OTHER -> Outcome(<< >>, END, "none", "keep")

\* a handler as registered, that is inside handle_errors.  With the fault
\* "own" its first Telegram call raises.
run_handler(handler, u, user_id) ==
    CASE handler = "button" ->
           IF u.fault = "own" THEN Caught(u, << >>, "none")
           ELSE LET body == button_body(u, user_id)
                IN  Outcome(<< Tg("answer", "") >> \o body.messages, body.result,
                            body.request, body.language)
      [] handler = "start" ->
           Outcome(call_helper("start_menu", u, user_id).messages, None, "none", "keep")
      [] handler = "show_help" ->
           IF u.fault = "own" THEN Caught(u, << >>, "none")
           ELSE Outcome(<< send_content(u, "help") >>, None, "none", "keep")
      [] handler = "cancel" ->
           IF u.fault = "own" THEN Caught(u, << >>, "none")
           ELSE Outcome(<< send_content(u, "cancel") >>, END, "none", "keep")
      [] handler = "handle_search" ->
           IF u.fault = "own" THEN Caught(u, << >>, "text")
           ELSE Outcome(<< send_content(u, "request_confirmation") >>, END, "text", "keep")
      [] handler = "handle_image_search" ->
           IF u.fault = "own" THEN Caught(u, << >>, "none")
           ELSE Outcome(<< Tg("get_file", ""), send_content(u, "request_confirmation") >>,
                        END, IF u.file_path THEN "image" ELSE "text", "keep")
      [] handler \in { "handle_verification", "handle_tracking" } ->
           IF u.fault = "own" THEN Caught(u, << >>, "none")
           ELSE Outcome(<< send_content(u, handler) >>, END, "none", "keep")
      [] OTHER -> Outcome(<< >>, None, "none", "keep")

\* ConversationHandler: the state after a handler it ran has returned
next_conversation(state, result) ==
    CASE result = END -> Idle
      [] result = None -> state
      [] OTHER -> result

\* ProductRequestService.create_product_request: the entry it stores
store_request(requests, user_id, request_type) ==
    Append(requests, [ user_id |-> user_id, request_type |-> request_type ])

\* One update of the followed user handled by bot_production.
ProdHandle ==
    /\ \E u \in ProdUpdates :
          LET d == dispatch(conversation, u)
              o == run_handler(d.handler, u, prod_user)
          IN  /\ o.request # "none" => Len(pending_requests) < MaxRequests
              /\ prod_update' = u
              /\ prod_handler' = d
              /\ prod_outbox' = o.messages
              /\ conversation' = IF d.in_conversation
                                 THEN next_conversation(conversation, o.result)
                                 ELSE conversation
              /\ pending_requests' =
                    IF o.request = "none" THEN pending_requests
                    ELSE store_request(pending_requests, prod_user, o.request)
              /\ user_language' = IF o.language = "keep" THEN user_language
                                  ELSE o.language
    /\ UNCHANGED << prod_user, pure_vars, main_vars, flask_vars, ext_but_prod >>

\* the services and the application as main() sets them up
ProdStart ==
    /\ conversation = Idle
    /\ user_language = "en"
    /\ pending_requests = << >>
    /\ prod_update = [ kind |-> "sticker", data |-> << >>, fault |-> "none",
                       error_send_fails |-> FALSE, file_path |-> TRUE ]
    /\ prod_handler = [ handler |-> "none", in_conversation |-> FALSE ]
    /\ prod_outbox = << >>

ProdIdle == prod_user = 1 /\ ProdStart

-----------------------------------------------------------------------------
(* The entry points: what each does from launch until it serves or stops *)

EntryPoints ==
    { "main.py", "railway_simple.py", "railway_start.py", "bot_production.py",
      "flask_app.py" }

\* flask_app.initialize_bot, run when flask_app is imported or launched
flask_initialize_bot ==
    << "BOT_TOKEN = literal", "init_google_sheets", "deleteWebhook", "setWebhook" >>

\* the steps of each entry point, in order
boot_program(entry) ==
    CASE entry = "main.py" ->
           << "getenv TELEGRAM_BOT_TOKEN", "getMe", "deleteWebhook", "setWebhook",
              "app.run" >>
      [] entry = "railway_simple.py" ->
           << "getenv TELEGRAM_BOT_TOKEN" >> \o flask_initialize_bot \o << "app.run" >>
      [] entry = "railway_start.py" ->
           << "getenv TELEGRAM_BOT_TOKEN", "GOOGLE_CREDENTIALS_JSON", "bot_main()" >>
      [] entry = "bot_production.py" ->
           << "getenv TELEGRAM_BOT_TOKEN", "initialize_services", "getMe",
              "start_polling" >>
      [] OTHER -> flask_initialize_bot \o << "app.run" >>

TelegramCalls == { "getMe", "deleteWebhook", "setWebhook" }

\* the outcomes of a step: a Telegram call answers ok, answers not ok or
\* raises; the credentials are absent, valid or invalid
step_outcomes(step) ==
    CASE step \in TelegramCalls -> { "ok", "not ok", "raises" }
      [] step \in { "GOOGLE_CREDENTIALS_JSON", "init_google_sheets" } ->
           { "absent", "valid", "invalid" }
      [] OTHER -> { "done" }

NotLaunched ==
    [ entry |-> "none", env_token |-> FALSE, pc |-> 0, api_calls |-> << >>,
      serving |-> FALSE, polling |-> FALSE, exit_code |-> -1,
      credentials |-> "unread" ]

BootIdle == boot = NotLaunched

\* one step of an entry point
boot_step(b, outcome) ==
    LET step == boot_program(b.entry)[b.pc]
        stop(code) == [ b EXCEPT !.pc = 0, !.exit_code = code ]
    IN  CASE step = "getenv TELEGRAM_BOT_TOKEN" ->
               \* exit(1) / sys.exit(1); bot_production's main() just returns
               IF b.env_token THEN [ b EXCEPT !.pc = @ + 1 ]
               ELSE stop(IF b.entry = "bot_production.py" THEN 0 ELSE 1)
          [] step = "GOOGLE_CREDENTIALS_JSON" ->
               IF outcome = "invalid"
               THEN [ stop(1) EXCEPT !.credentials = outcome ]
               ELSE [ b EXCEPT !.pc = @ + 1, !.credentials = outcome ]
          [] step \in TelegramCalls ->
               \* setup_webhook: a deleteWebhook that raises skips setWebhook
               [ b EXCEPT !.pc = IF step = "deleteWebhook" /\ outcome = "raises"
                                 THEN @ + 2 ELSE @ + 1,
                          !.api_calls = Append(@, << step, outcome >>) ]
          [] step = "app.run" -> [ b EXCEPT !.pc = 0, !.serving = TRUE ]
          [] step = "start_polling" -> [ b EXCEPT !.pc = 0, !.polling = TRUE ]
          \* railway_start calls the coroutine function main() of
          \* bot_production without awaiting it: nothing runs
          [] step = "bot_main()" -> [ b EXCEPT !.pc = 0, !.exit_code = 0 ]
          [] OTHER -> [ b EXCEPT !.pc = @ + 1 ]

\* an entry point is launched, with or without TELEGRAM_BOT_TOKEN set
Launch ==
    /\ boot.entry = "none"
    /\ \E entry \in EntryPoints, env_token \in BOOLEAN :
          boot' = [ NotLaunched EXCEPT !.entry = entry, !.env_token = env_token,
                                       !.pc = 1 ]
    /\ UNCHANGED << pure_vars, main_vars, flask_vars, ext_but_boot >>

BootStep ==
    /\ boot.pc > 0
    /\ \E outcome \in step_outcomes(boot_program(boot.entry)[boot.pc]) :
          boot' = boot_step(boot, outcome)
    /\ UNCHANGED << pure_vars, main_vars, flask_vars, ext_but_boot >>

-----------------------------------------------------------------------------
(* services/google_sheets_service.py: the worksheets and the sync calls *)

\* A worksheet is the sequence of its rows; of a row the model keeps the
\* first column (the key) and what else the row says.  The header row is
\* the one _setup_orders_headers / _setup_users_headers inserts.
HeaderRow == [ kind |-> "header", key |-> << >>, value |-> "" ]
DataRow(key, value) == [ kind |-> "data", key |-> key, value |-> value ]

\* The Orders worksheet right after _initialize_connection:
\*  - a spreadsheet the service has just created: _setup_sheets renames
\*    sheet1 to "Orders", _get_or_create_sheets then finds it and sets no
\*    headers: the sheet is empty;
\*  - the rename failed (its exception is swallowed): "Orders" is added
\*    with the header row.
FreshOrdersSheets == { << >>, << HeaderRow >> }

\* The Users worksheet is always added with its header row.
FreshUsersSheet == << HeaderRow >>

\* the Sheets call that raises while something is recorded; a call that
\* is not made on the path taken raises nothing
SyncFaults == { "none", "col_values", "update", "append_row" }
RequestFaults ==
    { "none", "worksheet", "row_values", "update_header", "get_all_values", "update" }
FlaskSheetFaults == { "none", "worksheet", "append_row" }

\* a try block without its except clause
no_except(outcome) == outcome

\* try: ... except Exception: print / logger.error
except_Exception(outcome) == [ outcome EXCEPT !.raised = FALSE ]

\* _find_order_row and _find_user_row: the first row from row 2 on whose
\* key column equals the key, 0 for None; an exception of col_values is
\* caught there and gives None
find_row(rows, key, fault) ==
    LET hits == { i \in 2..Len(rows) : rows[i].kind = "data" /\ rows[i].key = key }
    IN  IF fault = "col_values" \/ hits = {} THEN 0
        ELSE CHOOSE i \in hits : \A j \in hits : i <= j

\* the try block of sync_order and of sync_user_activity: the worksheet
\* afterwards, whether the block raised and whether a Sheets call failed
sync_row(rows, key, value, fault) ==
    LET existing_row == find_row(rows, key, fault)
        lookup_failed == fault = "col_values"
    IN  IF existing_row # 0
        THEN IF fault = "update"
             THEN [ rows |-> rows, raised |-> TRUE, failed |-> TRUE ]
             ELSE [ rows |-> [ rows EXCEPT ![existing_row] = DataRow(key, value) ],
                    raised |-> FALSE, failed |-> lookup_failed ]
        ELSE IF fault = "append_row"
             THEN [ rows |-> rows, raised |-> TRUE, failed |-> TRUE ]
             ELSE [ rows |-> Append(rows, DataRow(key, value)),
                    raised |-> FALSE, failed |-> lookup_failed ]

\* GoogleSheetsService.sync_order: the service afterwards, the value
\* returned and whether an exception leaves the method
sync_order(sheet, order_id, status, fault) ==
    IF ~ sheet.connected
    THEN [ sheet |-> sheet, ok |-> FALSE, raised |-> FALSE, failed |-> FALSE ]
    ELSE LET body == sync_row(sheet.orders, order_id, status, fault)
         IN  [ sheet |-> [ sheet EXCEPT !.orders = body.rows ],
               ok |-> ~ body.raised,
               raised |-> except_Exception(body).raised,
               failed |-> body.failed ]

\* GoogleSheetsService.sync_user_activity
sync_user_activity(sheet, user_id, info, fault) ==
    IF ~ sheet.connected
    THEN [ sheet |-> sheet, ok |-> FALSE, raised |-> FALSE, failed |-> FALSE ]
    ELSE LET body == sync_row(sheet.users, user_id, info, fault)
         IN  [ sheet |-> [ sheet EXCEPT !.users = body.rows ],
               ok |-> ~ body.raised,
               raised |-> except_Exception(body).raised,
               failed |-> body.failed ]

\* ProductRequestService._sync_request_to_sheets: the "Product Requests"
\* worksheet afterwards and whether an exception leaves the method
sync_request_to_sheets(rows, request, fault) ==
    LET with_headers == IF rows = << >> THEN << HeaderRow >> ELSE rows
        body ==
           IF fault \in { "worksheet", "row_values" }
           THEN [ rows |-> rows, raised |-> TRUE, failed |-> TRUE ]
           ELSE IF fault = "update_header" /\ rows = << >>
           THEN [ rows |-> rows, raised |-> TRUE, failed |-> TRUE ]
           ELSE IF fault \in { "get_all_values", "update" }
           THEN [ rows |-> with_headers, raised |-> TRUE, failed |-> TRUE ]
           ELSE [ rows |-> Append(with_headers, DataRow(request, "pending")),
                  raised |-> FALSE, failed |-> FALSE ]
    IN  except_Exception(body)

\* flask_app.create_order, the `if google_sheets:` block
flask_sheet_append(rows, order_id, fault) ==
    LET body == IF fault \in { "worksheet", "append_row" }
                THEN [ rows |-> rows, raised |-> TRUE, failed |-> TRUE ]
                ELSE [ rows |-> Append(rows, DataRow(order_id, "pending")),
                       raised |-> FALSE, failed |-> FALSE ]
    IN  except_Exception(body)

\* the rows of a worksheet that hold a record
data_rows(rows) == SelectSeq(rows, LAMBDA r : r.kind = "data")

\* the orders and users handed to the sync calls
SyncedOrderIds == { << 1, 2 >>, << 1, 3 >> }
SyncedStatuses == { "pending", "shipped" }
SyncedUsers == { 1, 1169659218 }

\* the service after _initialize_connection
SheetsStart(orders_rows, connected) ==
    [ connected |-> connected, orders |-> orders_rows, users |-> FreshUsersSheet,
      requests |-> << >>, flask_orders |-> << >>, flask_users |-> << >> ]

\* the last call that records something: the Sheets call that failed in
\* it, whether an exception left the recording function, whether the
\* record is in the in-memory store, whether the caller got its answer
\* (the reply sent, the value returned) and whether the worksheet got a row;
\* for the sync calls themselves `stored` is the value they return
NoLedgerCall ==
    [ fn |-> "none", fault |-> "none", sheet_failed |-> FALSE, raised |-> FALSE,
      stored |-> FALSE, answered |-> FALSE, row_written |-> FALSE ]

\* the recording functions belong to different programs; a behaviour
\* follows the calls of one of them
Follows(fn) == ledger_call.fn \in { "none", fn }

\* bot_production without credentials.json: no connection
SheetsIdle ==
    /\ sheets = SheetsStart(<< >>, FALSE)
    /\ ledger_call = NoLedgerCall

\* what goes wrong while GoogleSheetsService connects: nothing, no
\* credentials.json in the working directory, or one of the calls raises
ConnectFaults ==
    { "none", "no credentials.json", "from_service_account_file", "authorize",
      "open", "create", "worksheet", "add_worksheet" }

\* the calls _initialize_connection makes: create and add_worksheet only
\* for a spreadsheet that does not exist yet
connect_calls(spreadsheet_exists) ==
    { "from_service_account_file", "authorize", "open", "worksheet" }
    \cup (IF spreadsheet_exists THEN {} ELSE { "create", "add_worksheet" })

\* a connection whose except branch does not reset self.gc
initialize_connection_keeps_gc(fault, spreadsheet_exists, rows) ==
    IF fault = "no credentials.json" THEN SheetsStart(<< >>, FALSE)
    ELSE IF fault \in { "from_service_account_file", "authorize", "open", "create" }
            /\ fault \in connect_calls(spreadsheet_exists)
    THEN SheetsStart(<< >>, FALSE)
    ELSE SheetsStart(rows, TRUE)

\* GoogleSheetsService._initialize_connection: the service it leaves.
\* Without the file it returns at once; an exception of any call ends in
\* `self.gc = None`.
initialize_connection(fault, spreadsheet_exists, rows) ==
    IF fault = "no credentials.json" THEN SheetsStart(<< >>, FALSE)
    ELSE IF fault \in connect_calls(spreadsheet_exists)
    THEN SheetsStart(<< >>, FALSE)
    ELSE SheetsStart(rows, TRUE)

\* GoogleSheetsService(): the service is constructed once, by
\* initialize_services
Connect ==
    /\ ledger_call.fn = "none"
    /\ \E fault \in ConnectFaults, spreadsheet_exists \in BOOLEAN,
          rows \in FreshOrdersSheets :
          /\ sheets' = initialize_connection(fault, spreadsheet_exists, rows)
          /\ ledger_call' =
                [ NoLedgerCall EXCEPT
                     !.fn = "GoogleSheetsService.__init__",
                     !.fault = fault,
                     !.sheet_failed = fault = "no credentials.json"
                                         \/ fault \in connect_calls(spreadsheet_exists),
                     !.answered = TRUE ]
    /\ UNCHANGED << pure_vars, main_vars, flask_vars, ext_but_sheets >>

\* one call of sync_order
SyncOrder ==
    /\ \E order_id \in SyncedOrderIds, status \in SyncedStatuses, fault \in SyncFaults :
          LET r == sync_order(sheets, order_id, status, fault)
          IN  /\ Len(r.sheet.orders) <= 1 + MaxRows
              /\ sheets' = r.sheet
              /\ ledger_call' =
                    [ fn |-> "sync_order", fault |-> fault, sheet_failed |-> r.failed,
                      raised |-> r.raised, stored |-> r.ok, answered |-> ~ r.raised,
                      row_written |-> data_rows(r.sheet.orders) # data_rows(sheets.orders) ]
    /\ UNCHANGED << pure_vars, main_vars, flask_vars, ext_but_sheets >>

\* one call of sync_user_activity
SyncUserActivity ==
    /\ \E user_id \in SyncedUsers, info \in { "en" }, fault \in SyncFaults :
          LET r == sync_user_activity(sheets, user_id, info, fault)
          IN  /\ Len(r.sheet.users) <= 1 + MaxRows
              /\ sheets' = r.sheet
              /\ ledger_call' =
                    [ fn |-> "sync_user_activity", fault |-> fault, sheet_failed |-> r.failed,
                      raised |-> r.raised, stored |-> r.ok, answered |-> ~ r.raised,
                      row_written |-> data_rows(r.sheet.users) # data_rows(sheets.users) ]
    /\ UNCHANGED << pure_vars, main_vars, flask_vars, ext_but_sheets >>

\* OrderManagementService.create_order with a connected google_sheets_service
CreateOrderSynced ==
    /\ Follows("OrderManagementService.create_order")
    /\ Cardinality(DOMAIN self_orders) < 1 + MaxOrders
    /\ \E user_id \in OrderUsers, fault \in SyncFaults :
          LET order_id == new_order_id(self_orders, today)
              r == sync_order(sheets, order_id, "pending", fault)
          IN  /\ Len(r.sheet.orders) <= 1 + MaxRows
              /\ self_orders' = put_order(self_orders, order_id,
                                   [ user_id |-> user_id, status |-> "pending",
                                     tracking_number |-> None ])
              /\ user_orders' = append_user_order(user_orders, user_id, order_id)
              /\ sheets' = r.sheet
              /\ ledger_call' =
                    [ fn |-> "OrderManagementService.create_order", fault |-> fault,
                      sheet_failed |-> r.failed, raised |-> r.raised,
                      stored |-> order_id \in DOMAIN self_orders'
                                   /\ self_orders'[order_id].user_id = user_id,
                      answered |-> ~ r.raised,
                      row_written |-> data_rows(r.sheet.orders) # data_rows(sheets.orders) ]
    /\ UNCHANGED << today, boot, prod_vars, lang_vars, pure_vars, main_vars, flask_vars >>

\* bot_production.handle_search with a connected google_sheets_service:
\* create_product_request, then the confirmation; an exception that
\* leaves create_product_request is answered by handle_errors
HandleSearchSynced ==
    /\ Follows("create_product_request")
    /\ Len(pending_requests) < MaxRequests
    /\ \E fault \in RequestFaults, description \in { "a", "b" } :
          LET u == [ kind |-> "text", data |-> << >>, fault |-> "none",
                     error_send_fails |-> FALSE, file_path |-> TRUE ]
              r == sync_request_to_sheets(sheets.requests, description, fault)
          IN  /\ Len(r.rows) <= 1 + MaxRows
              /\ pending_requests' = store_request(pending_requests, prod_user, "text")
              /\ sheets' = [ sheets EXCEPT !.requests = r.rows ]
              /\ prod_update' = u
              /\ prod_handler' = [ handler |-> "handle_search", in_conversation |-> TRUE ]
              /\ prod_outbox' = IF r.raised THEN error_report(u)
                                ELSE << send_content(u, "request_confirmation") >>
              /\ conversation' = Idle
              /\ ledger_call' =
                    [ fn |-> "create_product_request", fault |-> fault,
                      sheet_failed |-> r.failed, raised |-> r.raised,
                      stored |-> Len(pending_requests') = Len(pending_requests) + 1,
                      answered |-> prod_outbox' = << send_content(u, "request_confirmation") >>,
                      row_written |-> data_rows(r.rows) # data_rows(sheets.requests) ]
    /\ UNCHANGED << prod_user, user_language, order_vars, boot, lang_vars,
                    pure_vars, main_vars, flask_vars >>

\* flask_app.webhook for a text message that is no command, with
\* google_sheets set: create_order, then the answer
FlaskOrderSynced ==
    /\ Follows("flask_app.create_order")
    /\ \E chat_id \in FlaskSenders, fault \in FlaskSheetFaults :
          LET u == [ payload |-> "message", chat_id |-> chat_id, data |-> "text",
                     order |-> -1 ]
              r == flask_sheet_append(sheets.flask_orders, now, fault)
          IN  /\ Len(r.rows) <= MaxRows
              /\ orders_data' = create_order(orders_data, chat_id, now)
              /\ sheets' = [ sheets EXCEPT !.flask_orders = r.rows ]
              /\ flask_update' = u
              /\ flask_outbox' = IF r.raised THEN << >> ELSE flask_calls(u, orders_data)
              /\ flask_response' = IF r.raised THEN HttpError
                                   ELSE flask_view_response(u, orders_data)
              /\ ledger_call' =
                    [ fn |-> "flask_app.create_order", fault |-> fault,
                      sheet_failed |-> r.failed, raised |-> r.raised,
                      stored |-> now \in DOMAIN orders_data'
                                   /\ orders_data'[now].user_id = chat_id,
                      answered |-> flask_outbox' = << "sendMessage" >>,
                      row_written |-> data_rows(r.rows) # data_rows(sheets.flask_orders) ]
    /\ UNCHANGED << now, pure_vars, main_vars, order_vars, prod_vars, boot, lang_vars >>

-----------------------------------------------------------------------------
(* services/language_service.py: the language of each user and get_text *)

\* self.default_language
default_language == "en"

\* the languages self.translations has a table for
SupportedLanguages == { "en", "ru" }

\* keys both tables hold (every key of one table is a key of the other) and
\* keys bot_production asks for that neither table holds
TranslatedKeys == { "welcome", "language_changed", "new_search" }
MissingKeys == { "error_occurred", "product_image_title", "no_image_provided" }

\* self.translations: the keys of each table; the text under a key is
\* written Translation(key, language)
translations == [ l \in SupportedLanguages |-> TranslatedKeys ]
Translation(key, language) == [ kind |-> "translation", key |-> key, language |-> language ]
RawKey(key) == [ kind |-> "key", key |-> key, language |-> "" ]
DefaultText(key) == [ kind |-> "default", key |-> key, language |-> "" ]
LookupFailed == [ kind |-> "KeyError", key |-> "", language |-> "" ]

\* a service that stores whatever code it is given
set_user_language_unchecked(languages, user_id, language_code) ==
    [ languages |-> [ u \in DOMAIN languages \cup { user_id } |->
                         IF u = user_id THEN language_code ELSE languages[u] ],
      result |-> TRUE ]

\* LanguageService.set_user_language: the map afterwards and the value returned
set_user_language(languages, user_id, language_code) ==
    IF language_code \in DOMAIN translations
    THEN [ languages |-> [ u \in DOMAIN languages \cup { user_id } |->
                              IF u = user_id THEN language_code ELSE languages[u] ],
           result |-> TRUE ]
    ELSE [ languages |-> languages, result |-> FALSE ]

\* LanguageService.get_user_language
get_user_language(languages, user_id) ==
    IF user_id \in DOMAIN languages THEN languages[user_id] ELSE default_language

\* LanguageService.get_text(user_id, key, **kwargs): of the keyword
\* arguments only their names matter here; no text under the modelled keys
\* has a placeholder called "default", so str.format leaves the text as
\* it is
get_text(languages, user_id, key, kwargs) ==
    LET language == get_user_language(languages, user_id)
    IN  IF language \notin DOMAIN translations THEN LookupFailed
        ELSE IF key \in translations[language] THEN Translation(key, language)
        ELSE IF key \in translations[default_language]
             THEN Translation(key, default_language)
             ELSE RawKey(key)

LanguageUsers == { 1, 2, 1169659218 }
LanguageCodes == { "en", "ru", "de", "" }

NoLanguageCall ==
    [ fn |-> "none", user_id |-> 0, code |-> "", key |-> "", kwargs |-> {},
      before |-> << >>, result |-> FALSE ]

\* LanguageService.__init__
LanguageIdle ==
    /\ user_languages = << >>
    /\ lang_call = NoLanguageCall

\* one call of set_user_language ('lang_<code>' pressed by some user)
SetUserLanguage ==
    /\ \E user_id \in LanguageUsers, language_code \in LanguageCodes :
          LET r == set_user_language(user_languages, user_id, language_code)
          IN  /\ user_languages' = r.languages
              /\ lang_call' = [ NoLanguageCall EXCEPT !.fn = "set_user_language",
                                   !.user_id = user_id, !.code = language_code,
                                   !.before = user_languages, !.result = r.result ]
    /\ UNCHANGED << pure_vars, main_vars, flask_vars, ext_but_lang >>

\* one call of get_text, with or without default=
GetText ==
    /\ \E user_id \in LanguageUsers, key \in TranslatedKeys \cup MissingKeys,
          kwargs \in { {}, { "default" } } :
          lang_call' = [ NoLanguageCall EXCEPT !.fn = "get_text",
                            !.user_id = user_id, !.key = key, !.kwargs = kwargs,
                            !.before = user_languages,
                            !.result = get_text(user_languages, user_id, key, kwargs) ]
    /\ UNCHANGED << user_languages, pure_vars, main_vars, flask_vars, ext_but_lang >>

-----------------------------------------------------------------------------
(* Specifications *)

MainIdle ==
    /\ pc = "idle"
    /\ update = [ BaseUpdate EXCEPT !.payload = "no_message" ]
    /\ branch = "ignore"
    /\ attempt = 0
    /\ notification_sent = FALSE
    /\ file_info = FALSE
    /\ outbox = << >>
    /\ response = NoResponseYet
    /\ deliveries = 0
    /\ notifications = 0
    /\ replies = 0

FlaskIdle ==
    /\ orders_data = << >>
    /\ flask_update = [ payload |-> "no_keys", chat_id |-> 1, data |-> "", order |-> -1 ]
    /\ flask_outbox = << >>
    /\ flask_response = NoResponseYet
    /\ now = 0

PureIdle ==
    /\ arg = NoText
    /\ ret = NotCalled

\* the services as constructed
RestIdle == OrderIdle /\ BootIdle /\ LanguageIdle
ExtIdle == RestIdle /\ ProdIdle /\ SheetsIdle

\* main.py serving /webhook
Init == MainIdle /\ FlaskIdle /\ PureIdle /\ ExtIdle

Next ==
    \/ Deliver
    \/ Redeliver
    \/ Forget
    \/ GetFile
    \/ NotifyAttempt
    \/ Sleep
    \/ SendFile
    \/ Reply

Spec == Init /\ [][Next]_vars

\* flask_app.py serving /webhook
FlaskNext ==
    \/ FlaskWebhook
    \/ Tick

SpecFlask == Init /\ [][FlaskNext]_vars

\* is_real_order applied to one text
InitClassifier ==
    /\ MainIdle /\ FlaskIdle /\ ExtIdle
    /\ arg \in TextInputs
    /\ ret = NotCalled

CallIsRealOrder ==
    /\ ret.fn = "none"
    /\ ret' = [ fn |-> "is_real_order", value |-> is_real_order(arg) ]
    /\ UNCHANGED << arg, main_vars, flask_vars, ext_vars >>

SpecClassifier == InitClassifier /\ [][CallIsRealOrder]_vars

\* verify_supplier applied to one query
InitSupplier ==
    /\ MainIdle /\ FlaskIdle /\ ExtIdle
    /\ arg \in QueryInputs
    /\ ret = NotCalled

CallVerifySupplier ==
    /\ ret.fn = "none"
    /\ ret' = [ fn |-> "verify_supplier", value |-> verify_supplier(arg) ]
    /\ UNCHANGED << arg, main_vars, flask_vars, ext_vars >>

SpecSupplier == InitSupplier /\ [][CallVerifySupplier]_vars

-----------------------------------------------------------------------------
\* get_risk_assessment applied to one supplier record
Scores == (0 - 5)..MaxScore
Languages == { "none", "en", "ru" }

InitRisk ==
    /\ MainIdle /\ FlaskIdle /\ ExtIdle
    /\ arg \in [ verification_score : Scores, lang : Languages ]
    /\ ret = NotCalled

CallGetRiskAssessment ==
    /\ ret.fn = "none"
    /\ ret' = [ fn |-> "get_risk_assessment",
                value |-> get_risk_assessment(arg.verification_score, arg.lang) ]
    /\ UNCHANGED << arg, main_vars, flask_vars, ext_vars >>

SpecRisk == InitRisk /\ [][CallGetRiskAssessment]_vars

\* the order service and the admin dashboard
OrdersNext ==
    \/ CreateOrder
    \/ UpdateOrderStatus
    \/ FormatAdminDashboard
    \/ NextDay

SpecOrders == Init /\ [][OrdersNext]_vars

\* an admin updating the orders users create
AdminNext ==
    \/ CreateOrder
    \/ AdminUpdateOrderStatus

SpecAdmin == Init /\ [][AdminNext]_vars

\* bot_production.py polling for updates, of an admin or of another user
InitProduction ==
    /\ MainIdle /\ FlaskIdle /\ PureIdle /\ RestIdle /\ SheetsIdle
    /\ prod_user \in ProdUsers
    /\ ProdStart

SpecProduction == InitProduction /\ [][ProdHandle]_vars

\* the launch of an entry point
BootNext ==
    \/ Launch
    \/ BootStep

SpecBoot == Init /\ [][BootNext]_vars

\* The programs that use the spreadsheet, from launch on: the entry points
\* and the service bot_production constructs
SyncOrderDisconnected ==
    /\ ledger_call.fn # "none"
    /\ ~ sheets.connected
    /\ SyncOrder

SyncUserActivityDisconnected ==
    /\ ledger_call.fn # "none"
    /\ ~ sheets.connected
    /\ SyncUserActivity

CredentialsNext ==
    \/ Launch
    \/ BootStep
    \/ Connect
    \/ SyncOrderDisconnected
    \/ SyncUserActivityDisconnected

SpecCredentials == Init /\ [][CredentialsNext]_vars

\* GoogleSheetsService connected to a spreadsheet it has set up
InitSheets ==
    /\ MainIdle /\ FlaskIdle /\ PureIdle /\ RestIdle /\ ProdIdle
    /\ \E rows \in FreshOrdersSheets : sheets = SheetsStart(rows, TRUE)
    /\ ledger_call = NoLedgerCall

SheetsNext ==
    \/ SyncOrder
    \/ SyncUserActivity

SpecSheets == InitSheets /\ [][SheetsNext]_vars

\* The three programs that record orders and requests, each with a
\* connected spreadsheet
LedgerNext ==
    \/ CreateOrderSynced
    \/ HandleSearchSynced
    \/ FlaskOrderSynced
    \/ Tick

SpecLedger == InitSheets /\ [][LedgerNext]_vars

\* LanguageService called in any order
LanguageNext ==
    \/ SetUserLanguage
    \/ GetText

SpecLanguage == Init /\ [][LanguageNext]_vars

\* main.py serving /webhook, no handler stopping half-way: every step of
\* notify_manager that can be taken is taken (each send has timeout=15, the
\* pause is two seconds)
SpecNotify ==
    Init /\ [][Next]_vars
    /\ WF_vars(NotifyAttempt) /\ WF_vars(Sleep) /\ WF_vars(SendFile)

(* What a delivery to main.py's webhook has done so far *)

IsManagerText(c) ==
    c.api = "sendMessage" /\ c.template \in { "file_request", "text_request" }
IsFileForward(c) == c.api \in { "sendPhoto", "sendDocument" }
IsUserReply(c) ==
    c.api = "sendMessage" /\ c.template \notin { "file_request", "text_request" }
IsPause(c) == c.api = "time.sleep"
Succeeded(c) == c.result.responded /\ c.result.ok

\* the text notifications sent to the manager, in order
ManagerTexts == SelectSeq(outbox, IsManagerText)
\* the replies sent to the sender, in order
UserReplies == SelectSeq(outbox, IsUserReply)
\* everything sent, in order (getFile lookups and pauses left out)
Sent == SelectSeq(outbox, LAMBDA c : c.api \notin { "getFile", "time.sleep" })

\* notify_manager was called for this delivery and has returned
NotifyReturned == branch \in NotifyingBranches /\ pc \in { "reply", "done" }

AllAttemptsFailed == \A i \in DOMAIN ManagerTexts : ~Succeeded(ManagerTexts[i])
Stops(c) == c.result.responded /\ c.result.error_code \in { 403, 400 }

\* a message with a chat whose only content is a text that is no '/'-command
PlainText(u) ==
    /\ u.payload = "message" /\ u.has_chat
    /\ u.has_text /\ ~startswith(u.text, <<47>>)
    /\ u.photo = "absent" /\ u.document = "absent"

\* an update the handler notifies the manager about: a photo, a document of
\* a supported type, or a plain text classified as a real order
QualifyingUpdate(u) ==
    /\ u.payload = "message" /\ u.has_chat
    /\ ~(u.has_text /\ u.text = START)
    /\ \/ u.photo = "valid"
       \/ /\ u.photo = "absent" /\ u.document = "valid"
          /\ u.has_file_name
          /\ \E ext \in excel_extensions \cup pdf_extensions
                         \cup word_extensions \cup text_extensions :
                 endswith(lower(u.file_name), ext)
       \/ PlainText(u) /\ is_real_order(u.text)

-----------------------------------------------------------------------------
(* Claims *)

\* C1 (as stated): when every sendMessage attempt to the manager fails,
\* whatever the error code or without any response, notify_manager has made
\* exactly 3 attempts and returns False.
C1_ThreeAttemptsWhateverTheCode ==
    (NotifyReturned /\ AllAttemptsFailed)
        => (Len(ManagerTexts) = max_attempts /\ ~notification_sent)

\* C1 (amended): when every attempt fails notify_manager returns False; it
\* has made exactly 3 attempts unless an attempt was answered with error
\* code 403 or 400, which ends the retries at once: that attempt is then the
\* last one.  Code 429 and a missing response never shorten the retries.
C1_ThreeAttemptsUnlessBlockedOrBadRequest ==
    (NotifyReturned /\ AllAttemptsFailed)
        => LET n == Len(ManagerTexts)
           IN  /\ ~notification_sent
               /\ n \in 1..max_attempts
               /\ \A i \in 1..(n - 1) : ~Stops(ManagerTexts[i])
               /\ n < max_attempts => Stops(ManagerTexts[n])
               /\ (\A i \in 1..n : ~Stops(ManagerTexts[i])) => n = max_attempts

C1_Witness ==
    /\ NotifyReturned /\ AllAttemptsFailed
    /\ Len(ManagerTexts) = max_attempts
    /\ ManagerTexts[1].result = ErrResult(429)
    /\ ManagerTexts[2].result = NoResult

\* C2: notify_manager returns True exactly when some text notification got
\* an ok response, and no text notification ever follows one that got an ok
\* response: a success on attempt k costs exactly k sendMessage calls to the
\* manager, k <= 3.
C2_TrueIffOkAndStopsAtFirstOk ==
    /\ \A i \in DOMAIN ManagerTexts :
          Succeeded(ManagerTexts[i]) => i = Len(ManagerTexts)
    /\ Len(ManagerTexts) <= max_attempts
    /\ NotifyReturned =>
          /\ notification_sent <=>
                \E i \in DOMAIN ManagerTexts : Succeeded(ManagerTexts[i])
          /\ notification_sent => Succeeded(ManagerTexts[Len(ManagerTexts)])

C2_Witness ==
    /\ NotifyReturned /\ notification_sent
    /\ Len(ManagerTexts) = 2
    /\ ~Succeeded(ManagerTexts[1]) /\ Succeeded(ManagerTexts[2])

\* C3: is_real_order(text) is False for an empty text or a trimmed length
\* below 5, else False when the trimmed lower-cased text is an exclude
\* phrase, else True when it contains an order keyword, else True exactly
\* when the trimmed length exceeds 20.  So a keyword-free, non-excluded text
\* of trimmed length 5..20 is rejected, one of length >= 21 is accepted, and
\* a text shorter than 5 is rejected even if it is a keyword.
C3_ClassifierRule ==
    ret.fn = "is_real_order" =>
        LET trimmed == strip(arg)
            normal == strip(lower(arg))
            excluded == \E i \in DOMAIN exclude_phrases : normal = exclude_phrases[i]
            keyword == \E i \in DOMAIN order_keywords :
                           contains(order_keywords[i], normal)
            expected == CASE Len(arg) = 0 \/ Len(trimmed) < 5 -> FALSE
                          [] excluded -> FALSE
                          [] keyword -> TRUE
                          [] OTHER -> Len(trimmed) > 20
        IN  /\ ret.value = expected
            /\ (~keyword /\ ~excluded /\ Len(trimmed) \in 5..20) => ret.value = FALSE
            /\ (~keyword /\ ~excluded /\ Len(trimmed) >= 21) => ret.value = TRUE
            /\ Len(trimmed) < 5 => ret.value = FALSE
            /\ arg = Fill(21) => ret.value = TRUE
            /\ arg = exclude_phrases[1] => ret.value = FALSE

C3_Witness ==
    /\ ret.fn = "is_real_order"
    /\ Len(strip(arg)) = 20
    /\ ~\E i \in DOMAIN order_keywords : contains(order_keywords[i], strip(lower(arg)))
    /\ ret.value = FALSE

C5_OnlyOkOrError ==
    flask_response \in { NoResponseYet, HttpOK, HttpError }

C7_Case ==
    /\ pc = "done" /\ PlainText(update) /\ is_real_order(update.text)
    /\ Len(ManagerTexts) > 0 /\ Succeeded(ManagerTexts[1])

\* C7 (as stated): in that case exactly one sendMessage goes to the manager
\* chat id, holding the sender's first name and the request text, then
\* exactly one sendMessage with the confirmation goes to the sender's chat,
\* and nothing else is sent.
C7_NotificationHoldsTheRequestText ==
    C7_Case =>
        /\ Len(Sent) = 2
        /\ IsManagerText(Sent[1]) /\ Sent[1].chat_id = MANAGER_CHAT_ID
        /\ update.has_first_name => Sent[1].user_name = update.first_name
        /\ Sent[1].content = update.text
        /\ Sent[2].api = "sendMessage" /\ Sent[2].chat_id = update.chat_id
        /\ Sent[2].template = "text_confirmation"

\* C7 (amended): as stated, except that the notification holds the request
\* text cut to its first 300 characters.
C7_NotificationHoldsTheFirst300Characters ==
    C7_Case =>
        /\ Len(Sent) = 2
        /\ IsManagerText(Sent[1]) /\ Sent[1].chat_id = MANAGER_CHAT_ID
        /\ update.has_first_name => Sent[1].user_name = update.first_name
        /\ Sent[1].content = head(update.text, 300)
        /\ Len(update.text) <= 300 => Sent[1].content = update.text
        /\ Sent[2].api = "sendMessage" /\ Sent[2].chat_id = update.chat_id
        /\ Sent[2].template = "text_confirmation"

C7_Witness ==
    /\ C7_Case
    /\ update.text = WatchRequest /\ update.has_first_name
    /\ Len(Sent) = 2

\* C8: the result of notify_manager only selects the wording of the reply:
\* for a photo, a supported document and a real-order text the confirmation
\* is sent exactly once and the webhook answers 200, whether notify_manager
\* returned True or False.
C8_ResultOnlySelectsWording ==
    (pc = "done" /\ QualifyingUpdate(update)) =>
        /\ Len(UserReplies) = 1
        /\ UserReplies[1].template \in
              { "photo_confirmation", "document_confirmation", "text_confirmation" }
        /\ UserReplies[1].wording =
              IF \E i \in DOMAIN ManagerTexts : Succeeded(ManagerTexts[i])
              THEN "already_notified" ELSE "will_be_notified"
        /\ UserReplies[1] = outbox[Len(outbox)]
        /\ response = HttpOK

C8_Witness ==
    /\ pc = "done" /\ QualifyingUpdate(update)
    /\ update.document = "valid"
    /\ ~notification_sent
    /\ Len(UserReplies) = 1 /\ response = HttpOK

\* C9: the handler keeps no record of processed updates: after n deliveries
\* of the same notification-qualifying update, notify_manager has been
\* called n times and n replies have been sent to the sender.
C9_EveryDeliveryNotifies ==
    (pc = "done" /\ QualifyingUpdate(update)) =>
        /\ notifications = deliveries
        /\ replies = deliveries
        /\ Len(ManagerTexts) >= 1 /\ Len(UserReplies) = 1

C9_Witness ==
    /\ pc = "done" /\ QualifyingUpdate(update)
    /\ deliveries = 2 /\ notifications = 2 /\ replies = 2

\* C10: verify_supplier lower-cases and trims the query; it finds a record
\* exactly when the normalised query equals a key, is part of a key or
\* contains a key; an equal key wins, else the first matching key in table
\* order; a query matching no key gives None.  "Shenzhen Audio" and
\* "shenzhen audio tech co" give the same record, "unknown co" gives None.
C10_SupplierLookup ==
    ret.fn = "verify_supplier" =>
        LET q == strip(lower(arg))
            keys == [ i \in DOMAIN mock_suppliers |-> mock_suppliers[i].key ]
            match(i) == \/ keys[i] = q
                        \/ contains(q, keys[i])
                        \/ contains(keys[i], q)
            matching == { i \in DOMAIN keys : match(i) }
        IN  /\ (ret.value # NoSupplier) <=> (matching # {})
            /\ \A i \in matching :
                  keys[i] = q => ret.value = mock_suppliers[i]
            /\ (matching # {} /\ \A i \in matching : keys[i] # q)
                  => \E i \in matching :
                        /\ ret.value = mock_suppliers[i]
                        /\ \A j \in matching : i <= j
            /\ ret.value = verify_supplier(upper(arg))
            /\ arg = <<83, 104, 101, 110, 122, 104, 101, 110, 32, 65, 117, 100, 105, 111>>
                  => ret.value = mock_suppliers[1]
            /\ arg = keys[1] => ret.value = mock_suppliers[1]
            /\ arg = <<117, 110, 107, 110, 111, 119, 110, 32, 99, 111>>
                  => ret.value = NoSupplier

C10_Witness ==
    /\ ret.fn = "verify_supplier"
    /\ arg = <<83, 104, 101, 110, 122, 104, 101, 110, 32, 65, 117, 100, 105, 111>>
    /\ ret.value = mock_suppliers[1]


\* C11: get_risk_assessment chooses its verdict from the verification score
\* alone: 85 and above is "recommended", 70 to 84 is "proceed with caution",
\* below 70 is "high risk"; 85 and 70 belong to the upper branch, every score
\* gets exactly one verdict, and the language of the caller changes the
\* wording of the title only, never which verdict it is.
C11_VerdictFromScore ==
    ret.fn = "get_risk_assessment" =>
        LET score == arg.verification_score
            verdict == ret.value.title[1]
            expected == IF score >= 85 THEN "recommended_supplier"
                        ELSE IF 70 <= score /\ score <= 84 THEN "proceed_caution"
                        ELSE "high_risk"
        IN  /\ verdict = expected
            /\ score < 70 <=> verdict = "high_risk"
            /\ ret.value.bullets =
                  ( CASE verdict = "recommended_supplier" -> "High verification score"
                      [] verdict = "proceed_caution" -> "Moderate verification score"
                      [] OTHER -> "Low verification score" )
            /\ \A l \in Languages :
                  get_risk_assessment(score, l).title[1] = verdict
            /\ score = 92 => verdict = "recommended_supplier"
            /\ score = 75 => verdict = "proceed_caution"
            /\ score = 50 => verdict = "high_risk"

C11_Witness ==
    /\ ret.fn = "get_risk_assessment"
    /\ arg.verification_score = 85
    /\ ret.value.title[1] = "recommended_supplier"

\* C12: after any sequence of create_order and update_order_status calls
\* the admin dashboard reports as total the number of orders in the order
\* map, as each of the six status counts the number of orders now in that
\* status (0 when there is none), the six counts sum to the total, and every
\* order of the map is counted exactly once.
C12_DashboardCounts ==
    ret.fn = "format_admin_dashboard" =>
        LET statuses == { OrderStatus[i] : i \in DOMAIN OrderStatus }
            in_status(s) == { id \in DOMAIN self_orders : self_orders[id].status = s }
            counts == ret.value.status_counts
        IN  /\ ret.value.total = Cardinality(DOMAIN self_orders)
            /\ DOMAIN counts = statuses /\ Cardinality(statuses) = 6
            /\ \A s \in statuses : counts[s] = Cardinality(in_status(s))
            /\ counts["pending"] + counts["confirmed"] + counts["production"]
                 + counts["shipped"] + counts["delivered"] + counts["cancelled"]
                 = ret.value.total
            /\ \A id \in DOMAIN self_orders :
                  Cardinality({ p \in get_all_orders(self_orders, user_orders) :
                                   user_orders[p[1]][p[2]] = id }) = 1

C12_Witness ==
    /\ ret.fn = "format_admin_dashboard"
    /\ ret.value.total = 3
    /\ ret.value.status_counts["pending"] = 1
    /\ ret.value.status_counts["cancelled"] = 1
    /\ ret.value.status_counts["shipped"] = 0

-----------------------------------------------------------------------------
(* What bot_production has done for the last update *)

Contents(calls) == { calls[i].content : i \in DOMAIN calls }

\* the calls that show something to the user
Shown(calls) ==
    SelectSeq(calls, LAMBDA c : c.api \in { "edit_message_text", "reply_text",
                                            "answer_alert" })

IsAdminButton(u) ==
    /\ u.kind = "callback"
    /\ u.data = << "admin" >> \/ starts_with_word(u.data, "admin")

\* the handlers button() calls for the given data
CallsHelper(u, user_id) ==
    /\ u.kind = "callback"
    /\ \/ u.data \in { << "search" >>, << "language" >>, << "help" >>, << "back" >> }
       \/ u.data = << "admin" >> /\ is_admin(user_id)
       \/ starts_with_word(u.data, "lang")

\* an exception was raised while the last update was handled
Raised ==
    \/ prod_update.fault = "own" /\ prod_handler.handler \notin { "none", "start" }
    \/ /\ prod_update.fault = "helper"
       /\ \/ prod_handler.handler = "start"
          \/ prod_handler.handler = "button" /\ CallsHelper(prod_update, prod_user)

\* admin content goes to admins only
AdminContentOnlyToAdmins ==
    Contents(prod_outbox) \cap AdminContent # {} => is_admin(prod_user)

\* C13: admin content (the dashboard, the all/pending/active order lists) is
\* sent only to a user of the admin-ID set; a user outside it who presses
\* 'admin' or an 'admin_*' button is shown the access-denied text and
\* nothing else, and the conversation of that user has then ended.
C13_AdminOnlyAndDeniedEndsConversation ==
    /\ AdminContentOnlyToAdmins
    /\ ( /\ IsAdminButton(prod_update) /\ prod_update.fault = "none"
         /\ ~ is_admin(prod_user) )
       => /\ Shown(prod_outbox) = << Tg("edit_message_text", "access_denied") >>
          /\ conversation = Idle

\* C14: pressing 'search' with no conversation under way and then
\* 'search_image' puts the conversation in AWAIT_PRODUCT_IMAGE (so that the
\* next photo goes to handle_image_search).
C14_SearchThenSearchImageAwaitsPhoto ==
    [][ ( /\ prod_update.kind = "callback" /\ prod_update.data = << "search" >>
          /\ prod_update.fault = "none" /\ prod_handler.in_conversation
          /\ conversation = SEARCH_PRODUCT
          /\ prod_update'.kind = "callback"
          /\ prod_update'.data = << "search", "image" >>
          /\ prod_update'.fault = "none" )
        => conversation' = AWAIT_PRODUCT_IMAGE ]_vars

\* C15: when handling an update raises an exception, the user is sent
\* exactly one error message and the conversation of that user ends, also
\* when the exception is raised in a helper handler called by another one.
C15_ErrorReportedOnceAndConversationEnds ==
    ( Raised /\ ~ prod_update.error_send_fails )
       => /\ Len(SelectSeq(prod_outbox, LAMBDA c : c.content = "error_occurred")) = 1
          /\ conversation = Idle

\* C16: when TELEGRAM_BOT_TOKEN is absent from the environment, every entry
\* point stops before it makes a Telegram API call, starts polling or
\* serves webhooks.
C16_NoTokenNoService ==
    ( boot.entry # "none" /\ ~ boot.env_token )
       => /\ boot.api_calls = << >>
          /\ ~ boot.serving
          /\ ~ boot.polling

\* C18: after any sequence of successful sync_order calls, from any
\* worksheet state the service itself sets up, the Orders worksheet holds at
\* most one row per order id (a sync of an id already on the sheet updates
\* its row in place), and the Users worksheet at most one row per user id.
C18_OneRowPerKey ==
    /\ \A id \in SyncedOrderIds :
          Cardinality({ i \in DOMAIN sheets.orders :
                           sheets.orders[i].kind = "data" /\ sheets.orders[i].key = id }) <= 1
    /\ \A id \in SyncedUsers :
          Cardinality({ i \in DOMAIN sheets.users :
                           sheets.users[i].kind = "data" /\ sheets.users[i].key = id }) <= 1

C19_EveryOrderMessageAddsAnEntry ==
    [][ ( /\ FlaskWebhook
          /\ flask_update'.payload = "message"
          /\ flask_update'.data \in OrderCreating )
        => Cardinality(DOMAIN orders_data') = Cardinality(DOMAIN orders_data) + 1 ]_vars

\* C20: in flask_app an order's status changes only from 'pending' to
\* 'confirmed', through its 'order_<id>' button; an order that is confirmed
\* stays in orders_data as confirmed whatever update is handled next.
C20_ConfirmedStaysConfirmed ==
    [][ \A id \in DOMAIN orders_data :
           orders_data[id].status = "confirmed"
           => /\ id \in DOMAIN orders_data'
              /\ orders_data'[id].status = "confirmed" ]_vars

\* C21: the language map only ever holds supported codes: set_user_language
\* with an unsupported code returns False and leaves the map as it was,
\* with a supported code it returns True and sets that user's entry and no
\* other; a user without an entry reads as the default language; get_text
\* never fails on the language lookup.
C21_LanguageMapHoldsSupportedCodes ==
    /\ \A u \in DOMAIN user_languages : user_languages[u] \in SupportedLanguages
    /\ \A u \in LanguageUsers \ DOMAIN user_languages :
          get_user_language(user_languages, u) = default_language
    /\ lang_call.fn = "set_user_language" =>
          IF lang_call.code \in SupportedLanguages
          THEN /\ lang_call.result = TRUE
               /\ DOMAIN user_languages = DOMAIN lang_call.before \cup { lang_call.user_id }
               /\ user_languages[lang_call.user_id] = lang_call.code
               /\ \A u \in DOMAIN lang_call.before \ { lang_call.user_id } :
                     user_languages[u] = lang_call.before[u]
          ELSE /\ lang_call.result = FALSE
               /\ user_languages = lang_call.before
    /\ lang_call.fn = "get_text" => lang_call.result # LookupFailed

C21_Witness ==
    /\ lang_call.fn = "set_user_language"
    /\ lang_call.code = "de"
    /\ lang_call.before # << >>
    /\ lang_call.user_id \in DOMAIN lang_call.before
    /\ Cardinality(DOMAIN user_languages) = 2

\* C27: get_text falls back from the user's table to the default-language
\* table and last to the text given as default=: for a key that is in
\* neither table, a call with default= returns that text, not the key.
C27_DefaultTextForMissingKey ==
    ( /\ lang_call.fn = "get_text"
      /\ lang_call.key \in MissingKeys
      /\ "default" \in lang_call.kwargs )
    => lang_call.result = DefaultText(lang_call.key)

\* the calls notify_manager has made for the update being handled
IsNotification(c) ==
    c.api = "sendMessage" /\ c.template \in { "file_request", "text_request" }
TextSends == { i \in DOMAIN outbox : IsNotification(outbox[i]) }
FileSends == { i \in DOMAIN outbox : outbox[i].template = "file_forward" }
Pauses == { i \in DOMAIN outbox : outbox[i] = pause }
InNotifyManager == pc \in { "notify", "sleep", "send_file" }

NotifyBudget ==
    /\ Cardinality(TextSends) <= 3
    /\ Cardinality(FileSends) <= 1
    /\ notification_sent \in BOOLEAN
    /\ \A i \in Pauses :
          /\ i - 1 \in TextSends
          /\ IF i = Len(outbox) THEN pc = "notify" ELSE i + 1 \in TextSends

\* C22: notify_manager always ends, with a boolean, after at most 3 text
\* sends and at most 1 file send to the manager whatever the results of its
\* sends (ok, error code, no response); a pause is taken only between two
\* attempts, never after the last one.
C22_NotifyManagerEndsWithinItsBudget ==
    /\ []NotifyBudget
    /\ InNotifyManager ~> (pc = "reply")

C22_Witness ==
    /\ pc = "reply"
    /\ Cardinality(TextSends) = 3
    /\ Cardinality(Pauses) = 2
    /\ ~ notification_sent

\* C29: notify_manager forwards the user's file to the manager only right
\* after a text notification that succeeded, at most once and without
\* retry; the result of the forward does not change what notify_manager
\* returns, and after a failed text notification no file is sent.
C29_FileForwardedOnlyAfterTextSucceeded ==
    /\ Cardinality(FileSends) <= 1
    /\ \A i \in FileSends :
          /\ i - 1 \in TextSends
          /\ outbox[i - 1].result = OkResult
    /\ pc \in { "reply", "done" } /\ branch \in { "photo", "document", "order" } =>
          /\ notification_sent = (\E i \in TextSends : outbox[i].result = OkResult)
          /\ ~ notification_sent => FileSends = {}
          /\ notification_sent /\ branch # "order" => FileSends # {}

C29_Witness ==
    /\ pc = "reply"
    /\ branch = "document"
    /\ notification_sent
    /\ \E i \in FileSends : outbox[i].result = NoResult

\* a message that carries a document as Telegram sends it
IsDocumentMessage(u) ==
    /\ u.payload = "message" /\ u.has_chat
    /\ u.document = "valid" /\ u.photo = "absent" /\ ~ u.has_text

C30_RailwayStartRunsTheBot ==
    ( /\ boot.entry = "railway_start.py"
      /\ boot.pc = 0
      /\ boot.exit_code = 0 )
    => boot.polling

\* the service has been constructed and is not connected
SheetsDisabled == ledger_call.fn # "none" /\ ~ sheets.connected

CredentialsNeverStopTheBot ==
    /\ ( ledger_call.fn = "GoogleSheetsService.__init__" /\ ledger_call.sheet_failed )
          => ~ sheets.connected /\ ~ ledger_call.raised
    /\ ( SheetsDisabled /\ ledger_call.fn \in { "sync_order", "sync_user_activity" } )
          => /\ ledger_call.stored = FALSE
             /\ ~ ledger_call.row_written
             /\ ~ ledger_call.raised
    /\ ( boot.entry = "railway_start.py" /\ boot.env_token /\ boot.pc = 0 )
          => ( boot.exit_code = 1 <=> boot.credentials = "invalid" )
    /\ ( boot.entry = "bot_production.py" /\ boot.env_token /\ boot.pc = 0 )
          => boot.polling

MenuButtonState(data) ==
    CASE data = << "search" >> -> SEARCH_PRODUCT
      [] data = << "verify" >> -> VERIFY_SUPPLIER
      [] data = << "tracking" >> -> TRACK_SHIPMENT
      [] data = << "language" >> -> SELECT_LANGUAGE
      [] OTHER -> ADMIN_PANEL

\* C24: in bot_production a main-menu button (search, verify, tracking,
\* language, and admin for an admin) pressed in any conversation state puts
\* the conversation in that button's state.
C24_MenuButtonSwitchesTheConversation ==
    [][ ( /\ prod_update'.kind = "callback"
          /\ entry_pattern(prod_update'.data)
          /\ prod_update'.fault = "none"
          /\ prod_update'.data = << "admin" >> => is_admin(prod_user) )
        => conversation' = MenuButtonState(prod_update'.data) ]_vars

WaitingStates ==
    { SEARCH_PRODUCT, VERIFY_SUPPLIER, TRACK_SHIPMENT, SELECT_LANGUAGE, ADMIN_PANEL }

\* the input a waiting state is waiting for
MatchingInput(state, u) ==
    \/ state \in { SEARCH_PRODUCT, VERIFY_SUPPLIER, TRACK_SHIPMENT } /\ u.kind = "text"
    \/ state = SELECT_LANGUAGE /\ u.kind = "callback" /\ starts_with_word(u.data, "lang")
    \/ state = ADMIN_PANEL /\ u.kind = "callback" /\ starts_with_word(u.data, "admin")

\* one step out of a waiting state
WaitingStep ==
    conversation \in WaitingStates =>
       ( /\ MatchingInput(conversation, prod_update') => conversation' = Idle
         /\ ( prod_update'.kind = "command" /\ prod_update'.data = << "cancel" >> )
               => conversation' = Idle
         /\ conversation' \in { conversation, Idle } )

\* C25: in bot_production a waiting conversation state is left for idle by
\* the one input it waits for (whatever the handler finds, also when it
\* fails) and by /cancel; no update moves the conversation from a waiting
\* state into another waiting state.
C25_WaitingStatesReturnToIdle ==
    [][WaitingStep]_vars

C25_Witness ==
    /\ conversation = Idle
    /\ prod_handler = [ handler |-> "handle_tracking", in_conversation |-> TRUE ]
    /\ prod_update.kind = "text"
    /\ prod_update.fault = "none"
\* C26: AdminService.update_order_status never raises; on an existing order
\* it returns True, the order has the new status and, when a tracking number
\* was given, that tracking number, and every other order is as it was; on
\* an unknown id it returns False and no order changes.
C26_AdminUpdateSetsStatusAndTracking ==
    [][ ret'.fn = "AdminService.update_order_status" =>
          /\ ret'.raised = "none"
          /\ IF ret'.order_id \in DOMAIN self_orders
             THEN /\ ret'.returned = "True"
                  /\ self_orders'[ret'.order_id].status = ret'.new_status
                  /\ ret'.tracking_number # None =>
                        self_orders'[ret'.order_id].tracking_number = ret'.tracking_number
                  /\ \A id \in DOMAIN self_orders \ { ret'.order_id } :
                        self_orders'[id] = self_orders[id]
             ELSE /\ ret'.returned = "False"
                  /\ self_orders' = self_orders ]_vars

\* what of C26 the code keeps: without a tracking number the call does as
\* described, and an unknown id is answered False with nothing changed
AdminUpdateWithoutTracking ==
    [][ ( ret'.fn = "AdminService.update_order_status"
          /\ (ret'.tracking_number = None \/ ret'.order_id \notin DOMAIN self_orders) ) =>
          /\ ret'.raised = "none"
          /\ IF ret'.order_id \in DOMAIN self_orders
             THEN /\ ret'.returned = "True"
                  /\ self_orders'[ret'.order_id].status = ret'.new_status
                  /\ \A id \in DOMAIN self_orders \ { ret'.order_id } :
                        self_orders'[id] = self_orders[id]
             ELSE /\ ret'.returned = "False"
                  /\ self_orders' = self_orders ]_vars

=============================================================================
